---------------------------- MODULE Spec2Model ----------------------------
(***************************************************************************)
(* A model of the vboot verified-boot decision engine: A/B firmware slot   *)
(* selection, the failure helper, the firmware keyblock/preamble           *)
(* anti-rollback checks and the secure-storage version counters.           *)
(*                                                                         *)
(* Every operation of the engine is one action.  The variables `call' and  *)
(* `old' are history variables: `call' records the operation that ran      *)
(* last (its inputs, its return value and the vb2api_fail calls it made),  *)
(* `old' the engine state at its entry.                                    *)
(***************************************************************************)
EXTENDS Integers, Sequences, FiniteSets, TLC

(***************************************************************************)
(* Bounds of the model                                                     *)
(***************************************************************************)
\* largest nv.try_count a boot starts with (the field is 4 bits wide)
MaxTryCount == 2
\* number of power cycles after the first boot
MaxBoots == 2
\* number of turns of a UI loop the user takes
MaxTurns == 3

(***************************************************************************)
(* Enumerations                                                            *)
(***************************************************************************)
\* enum vb2_fw_result
FwResults == {"UNKNOWN", "TRYING", "SUCCESS", "FAILURE"}

\* Recovery reasons used by the modelled code.  They are bytes; the model
\* needs them pairwise distinct and non-zero (0 is NOT_REQUESTED).
RecoveryNames ==
  << "RO_MANUAL", "FW_KEYBLOCK", "FW_KEY_ROLLBACK", "FW_PREAMBLE",
     "FW_ROLLBACK", "RO_UNSPECIFIED", "SECDATA_KERNEL_INIT",
     "SECDATA_FWMP_INIT", "RW_INVALID_OS", "RW_NO_KERNEL", "RW_NO_DISK",
     "LK_UNSPECIFIED", "RW_TPM_W_ERROR", "TRAIN_AND_REBOOT",
     "ALTFW_HASH_FAILED", "TPM_CLEAR_OWNER", "TPM_DISABLE_FAILED" >>

VB2_RECOVERY(name) ==
  CHOOSE i \in 1..Len(RecoveryNames) : RecoveryNames[i] = name

VB2_RECOVERY_NOT_REQUESTED == 0

\* vb2_error_t values returned by the modelled code.  They are 32-bit
\* codes above 0xff, pairwise distinct, with a non-zero low byte.
ErrorNames ==
  << "FW_KEYBLOCK_WORKBUF_ROOT_KEY", "FW_KEYBLOCK_WORKBUF_HEADER",
     "FW_KEYBLOCK_WORKBUF", "FW_KEYBLOCK_VERSION_RANGE",
     "FW_KEYBLOCK_VERSION_ROLLBACK", "FW_PREAMBLE2_DATA_KEY",
     "FW_PREAMBLE2_WORKBUF_HEADER", "FW_PREAMBLE2_WORKBUF",
     "FW_PREAMBLE_VERSION_RANGE", "FW_PREAMBLE_VERSION_ROLLBACK",
     "EX_READ_RESOURCE", "UNPACK_KEY", "KEYBLOCK_INVALID",
     "PREAMBLE_SIG_INVALID", "INSIDE_DATA_OUTSIDE",
     "API_KPHASE1_PREAMBLE", "REBOOT_REQUIRED", "LK_NO_KERNEL_FOUND",
     "LK_INVALID_KERNEL_FOUND", "LK_NO_DISK_FOUND", "DISK_READ",
     "SECDATA_KERNEL_CRC", "SECDATA_FWMP_CRC", "SECDATA_FIRMWARE_WRITE",
     "SECDATA_KERNEL_WRITE", "NV_WRITE", "UNKNOWN", "SHUTDOWN_REQUESTED",
     "EC_REBOOT_TO_RO_REQUIRED", "API_GET_KERNEL_SIZE_PREAMBLE",
     "API_VERIFY_KDATA_PREAMBLE", "API_VERIFY_KDATA_SIZE",
     "API_VERIFY_KDATA_WORKBUF", "API_VERIFY_KDATA_KEY",
     "API_CHECK_HASH_WORKBUF_DIGEST", "VDATA_VERIFY_DIGEST",
     "EX_TPM_CLEAR_OWNER" >>

VB2_ERROR(name) ==
  256 + (CHOOSE i \in 1..Len(ErrorNames) : ErrorNames[i] = name)

VB2_SUCCESS == 0

\* conversion of a vb2_error_t to the uint8_t parameter of vb2api_fail
U8(x) == x % 256

(***************************************************************************)
(* State                                                                   *)
(***************************************************************************)
VARIABLES
  nv,        \* NV storage fields (vb2_nv_get / vb2_nv_set)
  sd,        \* struct vb2_shared_data
  flags,     \* ctx->flags, the set of VB2_CONTEXT_* bits that are set
  gbb,       \* GBB header: flags and root key size
  secdata,   \* secure storage: firmware and kernel VERSIONS counters
  shared,    \* VbSharedDataHeader: kernel_version_tpm, kernel_version_tpm_start
  pc,        \* position of the calling firmware in the boot flow
  boots,     \* number of power cycles so far
  call,      \* history: the last operation, its inputs, its result and the
             \* external functions it called
  old        \* history: the engine state when that operation was entered

vars == << nv, sd, flags, gbb, secdata, shared, pc, boots, call, old >>

\* The mutable engine state as one value.
Engine == [ nv |-> nv, sd |-> sd, flags |-> flags,
            secdata |-> secdata, shared |-> shared ]

\* The engine state becomes e; op, its input and result and the external
\* functions it called are recorded.
ReturnExt(e, op, in, rv, fails, ext) ==
  /\ nv' = e.nv
  /\ sd' = e.sd
  /\ flags' = e.flags
  /\ secdata' = e.secdata
  /\ shared' = e.shared
  /\ call' = [ op |-> op, in |-> in, rv |-> rv, fails |-> fails, ext |-> ext ]
  /\ old' = Engine

Return(e, op, in, rv, fails) == ReturnExt(e, op, in, rv, fails, << >>)

NoCall == [ op |-> "none", in |-> << >>, rv |-> VB2_SUCCESS, fails |-> << >>,
            ext |-> << >> ]

(***************************************************************************)
(* vb2api_fail                                                             *)
(***************************************************************************)
\* Mutant: the recovery request is written even when one is pending.
vb2api_fail_overwrite(e, reason, subcode) ==
  LET sd1 == [ e.sd EXCEPT !.status = @ \cup {"NV_INIT"} ]
      chose == "CHOSE_SLOT" \in sd1.status
      nv1 == IF chose
               THEN [ e.nv EXCEPT !.fw_result = "FAILURE",
                                  !.try_count = 0,
                                  !.try_next = 1 - sd1.fw_slot ]
               ELSE e.nv
      early == /\ chose
               /\ \/ sd1.last_fw_slot # 1 - sd1.fw_slot
                  \/ sd1.last_fw_result # "FAILURE"
      nv2 == IF early THEN nv1
             ELSE [ nv1 EXCEPT !.recovery_request = reason,
                               !.recovery_subcode = subcode ]
  IN  [ e EXCEPT !.nv = nv2, !.sd = sd1 ]

\* Mutant: the remaining tries are not used up.
vb2api_fail_keeps_tries(e, reason, subcode) ==
  LET sd1 == [ e.sd EXCEPT !.status = @ \cup {"NV_INIT"} ]
      chose == "CHOSE_SLOT" \in sd1.status
      nv1 == IF chose
               THEN [ e.nv EXCEPT !.fw_result = "FAILURE",
                                  !.try_next = 1 - sd1.fw_slot ]
               ELSE e.nv
      early == /\ chose
               /\ \/ sd1.last_fw_slot # 1 - sd1.fw_slot
                  \/ sd1.last_fw_result # "FAILURE"
      nv2 == IF early \/ nv1.recovery_request # 0 THEN nv1
             ELSE [ nv1 EXCEPT !.recovery_request = reason,
                               !.recovery_subcode = subcode ]
  IN  [ e EXCEPT !.nv = nv2, !.sd = sd1 ]

\* Mutant: the subcode is dropped.
vb2api_fail_no_subcode(e, reason, subcode) ==
  LET sd1 == [ e.sd EXCEPT !.status = @ \cup {"NV_INIT"} ]
      chose == "CHOSE_SLOT" \in sd1.status
      nv1 == IF chose
               THEN [ e.nv EXCEPT !.fw_result = "FAILURE",
                                  !.try_count = 0,
                                  !.try_next = 1 - sd1.fw_slot ]
               ELSE e.nv
      early == /\ chose
               /\ \/ sd1.last_fw_slot # 1 - sd1.fw_slot
                  \/ sd1.last_fw_result # "FAILURE"
      nv2 == IF early \/ nv1.recovery_request # 0 THEN nv1
             ELSE [ nv1 EXCEPT !.recovery_request = reason ]
  IN  [ e EXCEPT !.nv = nv2, !.sd = sd1 ]

\* Mutant: the result of the other slot on the last boot is not consulted.
vb2api_fail_any_result(e, reason, subcode) ==
  LET sd1 == [ e.sd EXCEPT !.status = @ \cup {"NV_INIT"} ]
      chose == "CHOSE_SLOT" \in sd1.status
      \* boot failed; use up remaining tries; try the other slot next time
      nv1 == IF chose
               THEN [ e.nv EXCEPT !.fw_result = "FAILURE",
                                  !.try_count = 0,
                                  !.try_next = 1 - sd1.fw_slot ]
               ELSE e.nv
      early == chose /\ sd1.last_fw_slot # 1 - sd1.fw_slot
      nv2 == IF early \/ nv1.recovery_request # 0 THEN nv1
             ELSE [ nv1 EXCEPT !.recovery_request = reason,
                               !.recovery_subcode = subcode ]
  IN  [ e EXCEPT !.nv = nv2, !.sd = sd1 ]

\* void vb2api_fail(ctx, uint8_t reason, uint8_t subcode): the engine state
\* after the call.  vb2_nv_init on valid NV data only sets the status bit.
vb2api_fail(e, reason, subcode) ==
  LET sd1 == [ e.sd EXCEPT !.status = @ \cup {"NV_INIT"} ]
      chose == "CHOSE_SLOT" \in sd1.status
      \* boot failed; use up remaining tries; try the other slot next time
      nv1 == IF chose
               THEN [ e.nv EXCEPT !.fw_result = "FAILURE",
                                  !.try_count = 0,
                                  !.try_next = 1 - sd1.fw_slot ]
               ELSE e.nv
      \* the other slot was not tried last boot, or it did not fail
      early == /\ chose
               /\ \/ sd1.last_fw_slot # 1 - sd1.fw_slot
                  \/ sd1.last_fw_result # "FAILURE"
      nv2 == IF early \/ nv1.recovery_request # 0 THEN nv1
             ELSE [ nv1 EXCEPT !.recovery_request = reason,
                               !.recovery_subcode = subcode ]
  IN  [ e EXCEPT !.nv = nv2, !.sd = sd1 ]

(***************************************************************************)
(* vb2_check_recovery                                                      *)
(***************************************************************************)
\* Mutant: a forced recovery never overrides a reason that is already set.
vb2_check_recovery_first_wins(e) ==
  LET reason == e.nv.recovery_request
      subcode == e.nv.recovery_subcode
      r1 == IF e.sd.recovery_reason = 0 THEN reason ELSE e.sd.recovery_reason
      forced == "FORCE_RECOVERY_MODE" \in e.flags
      r2 == IF ~forced \/ r1 # 0 THEN r1
            ELSE IF subcode # 0 THEN subcode
            ELSE VB2_RECOVERY("RO_MANUAL")
      sd1 == [ e.sd EXCEPT
                 !.recovery_reason = r2,
                 !.flags = IF forced THEN @ \cup {"MANUAL_RECOVERY"} ELSE @ ]
  IN  [ e EXCEPT !.sd = sd1,
                 !.flags = IF r2 # 0 THEN @ \cup {"RECOVERY_MODE"} ELSE @ ]

\* Mutant: recovery mode is entered only on an NV request.
vb2_check_recovery_nv_only(e) ==
  LET reason == e.nv.recovery_request
      subcode == e.nv.recovery_subcode
      r1 == IF e.sd.recovery_reason = 0 THEN reason ELSE e.sd.recovery_reason
      forced == "FORCE_RECOVERY_MODE" \in e.flags
      r2 == IF ~forced THEN r1
            ELSE IF subcode # 0 /\ r1 = 0 THEN subcode
            ELSE VB2_RECOVERY("RO_MANUAL")
      sd1 == [ e.sd EXCEPT
                 !.recovery_reason = r2,
                 !.flags = IF forced THEN @ \cup {"MANUAL_RECOVERY"} ELSE @ ]
  IN  [ e EXCEPT !.sd = sd1,
                 !.flags = IF reason # 0 THEN @ \cup {"RECOVERY_MODE"} ELSE @ ]

\* Mutant: a forced recovery never promotes the subcode.
vb2_check_recovery_no_promotion(e) ==
  LET reason == e.nv.recovery_request
      r1 == IF e.sd.recovery_reason = 0 THEN reason ELSE e.sd.recovery_reason
      forced == "FORCE_RECOVERY_MODE" \in e.flags
      r2 == IF ~forced THEN r1 ELSE VB2_RECOVERY("RO_MANUAL")
      sd1 == [ e.sd EXCEPT
                 !.recovery_reason = r2,
                 !.flags = IF forced THEN @ \cup {"MANUAL_RECOVERY"} ELSE @ ]
  IN  [ e EXCEPT !.sd = sd1,
                 !.flags = IF r2 # 0 THEN @ \cup {"RECOVERY_MODE"} ELSE @ ]

\* void vb2_check_recovery(ctx)
vb2_check_recovery(e) ==
  LET reason == e.nv.recovery_request
      subcode == e.nv.recovery_subcode
      \* the request of the previous boot, unless a failure earlier in this
      \* boot already set a reason
      r1 == IF e.sd.recovery_reason = 0 THEN reason ELSE e.sd.recovery_reason
      forced == "FORCE_RECOVERY_MODE" \in e.flags
      r2 == IF ~forced THEN r1
            ELSE IF subcode # 0 /\ r1 = 0 THEN subcode
            ELSE VB2_RECOVERY("RO_MANUAL")
      sd1 == [ e.sd EXCEPT
                 !.recovery_reason = r2,
                 !.flags = IF forced THEN @ \cup {"MANUAL_RECOVERY"} ELSE @ ]
  IN  [ e EXCEPT !.sd = sd1,
                 !.flags = IF r2 # 0 THEN @ \cup {"RECOVERY_MODE"} ELSE @ ]

(***************************************************************************)
(* vb2_select_fw_slot                                                      *)
(***************************************************************************)
\* Mutant: the fallback to the other slot ignores which slot was tried.
vb2_select_fw_slot_any_slot(e) ==
  LET last_slot == e.nv.fw_tried
      last_result == e.nv.fw_result
      tries == e.nv.try_count
      fallback == last_result = "TRYING" /\ tries = 0
      slot == IF fallback THEN 1 - e.nv.try_next ELSE e.nv.try_next
      dec == tries > 0 /\ "NOFAIL_BOOT" \notin e.flags
      nv1 == [ e.nv EXCEPT
                 !.fw_prev_tried = last_slot,
                 !.fw_prev_result = last_result,
                 !.fw_result = IF tries > 0 THEN "TRYING" ELSE "UNKNOWN",
                 !.try_next = slot,
                 !.try_count = IF dec THEN tries - 1 ELSE tries,
                 !.fw_tried = slot ]
      sd1 == [ e.sd EXCEPT
                 !.last_fw_slot = last_slot,
                 !.last_fw_result = last_result,
                 !.fw_slot = slot,
                 !.status = @ \cup {"CHOSE_SLOT"} ]
  IN  [ e EXCEPT !.nv = nv1, !.sd = sd1,
                 !.flags = IF slot = 1 THEN @ \cup {"FW_SLOT_B"} ELSE @ ]

\* Mutant: NOFAIL_BOOT is not honoured.
vb2_select_fw_slot_always_dec(e) ==
  LET last_slot == e.nv.fw_tried
      last_result == e.nv.fw_result
      tries == e.nv.try_count
      fallback == last_result = "TRYING" /\ last_slot = e.nv.try_next
                  /\ tries = 0
      slot == IF fallback THEN 1 - e.nv.try_next ELSE e.nv.try_next
      dec == tries > 0
      nv1 == [ e.nv EXCEPT
                 !.fw_prev_tried = last_slot,
                 !.fw_prev_result = last_result,
                 !.fw_result = IF tries > 0 THEN "TRYING" ELSE "UNKNOWN",
                 !.try_next = slot,
                 !.try_count = IF dec THEN tries - 1 ELSE tries,
                 !.fw_tried = slot ]
      sd1 == [ e.sd EXCEPT
                 !.last_fw_slot = last_slot,
                 !.last_fw_result = last_result,
                 !.fw_slot = slot,
                 !.status = @ \cup {"CHOSE_SLOT"} ]
  IN  [ e EXCEPT !.nv = nv1, !.sd = sd1,
                 !.flags = IF slot = 1 THEN @ \cup {"FW_SLOT_B"} ELSE @ ]

\* Mutant: the previous-boot fields are copied after the result is cleared.
vb2_select_fw_slot_late_copy(e) ==
  LET last_slot == e.nv.fw_tried
      last_result == e.nv.fw_result
      tries == e.nv.try_count
      fallback == last_result = "TRYING" /\ last_slot = e.nv.try_next
                  /\ tries = 0
      slot == IF fallback THEN 1 - e.nv.try_next ELSE e.nv.try_next
      dec == tries > 0 /\ "NOFAIL_BOOT" \notin e.flags
      nv1 == [ e.nv EXCEPT
                 !.fw_prev_tried = last_slot,
                 !.fw_prev_result = "UNKNOWN",
                 !.fw_result = IF tries > 0 THEN "TRYING" ELSE "UNKNOWN",
                 !.try_next = slot,
                 !.try_count = IF dec THEN tries - 1 ELSE tries,
                 !.fw_tried = slot ]
      sd1 == [ e.sd EXCEPT
                 !.last_fw_slot = last_slot,
                 !.last_fw_result = last_result,
                 !.fw_slot = slot,
                 !.status = @ \cup {"CHOSE_SLOT"} ]
  IN  [ e EXCEPT !.nv = nv1, !.sd = sd1,
                 !.flags = IF slot = 1 THEN @ \cup {"FW_SLOT_B"} ELSE @ ]

\* Mutant: the slot whose tries are used up is tried again.
vb2_select_fw_slot_no_fallback(e) ==
  LET \* result of last boot
      last_slot == e.nv.fw_tried
      last_result == e.nv.fw_result
      tries == e.nv.try_count
      fallback == FALSE
      slot == IF fallback THEN 1 - e.nv.try_next ELSE e.nv.try_next
      dec == tries > 0 /\ "NOFAIL_BOOT" \notin e.flags
      nv1 == [ e.nv EXCEPT
                 !.fw_prev_tried = last_slot,
                 !.fw_prev_result = last_result,
                 !.fw_result = IF tries > 0 THEN "TRYING" ELSE "UNKNOWN",
                 !.try_next = slot,
                 !.try_count = IF dec THEN tries - 1 ELSE tries,
                 !.fw_tried = slot ]
      sd1 == [ e.sd EXCEPT
                 !.last_fw_slot = last_slot,
                 !.last_fw_result = last_result,
                 !.fw_slot = slot,
                 !.status = @ \cup {"CHOSE_SLOT"} ]
  IN  [ e EXCEPT !.nv = nv1, !.sd = sd1,
                 !.flags = IF slot = 1 THEN @ \cup {"FW_SLOT_B"} ELSE @ ]

\* vb2_error_t vb2_select_fw_slot(ctx): the engine state after the call
\* (it always returns VB2_SUCCESS).
vb2_select_fw_slot(e) ==
  LET \* result of last boot
      last_slot == e.nv.fw_tried
      last_result == e.nv.fw_result
      tries == e.nv.try_count
      \* the last try was used up on the previous boot
      fallback == last_result = "TRYING" /\ last_slot = e.nv.try_next
                  /\ tries = 0
      slot == IF fallback THEN 1 - e.nv.try_next ELSE e.nv.try_next
      dec == tries > 0 /\ "NOFAIL_BOOT" \notin e.flags
      nv1 == [ e.nv EXCEPT
                 !.fw_prev_tried = last_slot,
                 !.fw_prev_result = last_result,
                 !.fw_result = IF tries > 0 THEN "TRYING" ELSE "UNKNOWN",
                 !.try_next = slot,
                 !.try_count = IF dec THEN tries - 1 ELSE tries,
                 !.fw_tried = slot ]
      sd1 == [ e.sd EXCEPT
                 !.last_fw_slot = last_slot,
                 !.last_fw_result = last_result,
                 !.fw_slot = slot,
                 !.status = @ \cup {"CHOSE_SLOT"} ]
  IN  [ e EXCEPT !.nv = nv1, !.sd = sd1,
                 !.flags = IF slot = 1 THEN @ \cup {"FW_SLOT_B"} ELSE @ ]

(***************************************************************************)
(* Work buffer arithmetic and sizes                                        *)
(***************************************************************************)
VB2_WORKBUF_ALIGN == 8
\* sizeof(struct vb2_keyblock), sizeof(struct vb2_fw_preamble)
SizeofKeyblock == 112
SizeofFwPreamble == 108
\* the caller's work buffer; the watermark left by vb2api_init and phase 1
WorkbufSize == 512 * VB2_WORKBUF_ALIGN
WorkbufUsedAtBoot == 32 * VB2_WORKBUF_ALIGN
\* sizes of the flash structures the model boots with
RootKeySize == 4 * VB2_WORKBUF_ALIGN
KeyblockSize == SizeofKeyblock + 144
DataKeySize == 32 + 16
PreambleSize == SizeofFwPreamble + 128

vb2_wb_round_up(v) ==
  ((v + VB2_WORKBUF_ALIGN - 1) \div VB2_WORKBUF_ALIGN) * VB2_WORKBUF_ALIGN

\* struct vb2_workbuf as offsets from the shared data: the unused part of
\* the caller's buffer
vb2_workbuf_from_ctx(s) ==
  [ buf |-> s.workbuf_used, size |-> s.workbuf_size - s.workbuf_used ]

\* vb2_workbuf_alloc: [ok, ptr, wb]; fails when the rounded size exceeds
\* what remains
vb2_workbuf_alloc(wb, size) ==
  LET r == vb2_wb_round_up(size)
  IN  IF r > wb.size
        THEN [ ok |-> FALSE, ptr |-> 0, wb |-> wb ]
        ELSE [ ok |-> TRUE, ptr |-> wb.buf,
               wb |-> [ buf |-> wb.buf + r, size |-> wb.size - r ] ]

\* vb2_workbuf_realloc: give back the last allocation, then allocate again
vb2_workbuf_realloc(wb, oldsize, newsize) ==
  LET r == vb2_wb_round_up(oldsize)
  IN  vb2_workbuf_alloc([ buf |-> wb.buf - r, size |-> wb.size + r ], newsize)

\* Mutant: the firmware version replaces the composite version.
BitOr_right(a, b) == b

\* bitwise OR of two naturals
RECURSIVE BitOr(_, _)
BitOr(a, b) ==
  IF a = 0 THEN b
  ELSE IF b = 0 THEN a
  ELSE (IF a % 2 = 1 \/ b % 2 = 1 THEN 1 ELSE 0)
       + 2 * BitOr(a \div 2, b \div 2)

VB2_MAX_KEY_VERSION == 65535
VB2_MAX_PREAMBLE_VERSION == 65535
\* x << 16 and x >> 16 on uint32_t (the model keeps x << 16 below 2^31)
Shl16(x) == x * 65536
Shr16(x) == x \div 65536

(***************************************************************************)
(* vb2_load_fw_keyblock                                                    *)
(***************************************************************************)
\* vb2_verify_keyblock: signature and hash check of the keyblock, which
\* also bounds-checks that the data key lies inside the keyblock
vb2_verify_keyblock(kb) ==
  IF kb.fault = "verify" \/ ~kb.data_key_inside
    THEN VB2_ERROR("KEYBLOCK_INVALID")
    ELSE VB2_SUCCESS

vb2_verify_packed_key_inside(kb) ==
  IF kb.data_key_inside THEN VB2_SUCCESS
  ELSE VB2_ERROR("INSIDE_DATA_OUTSIDE")

\* result of an operation: engine state, return value, vb2api_fail calls
Result(e, rv, fails) == [ e |-> e, rv |-> rv, fails |-> fails ]

\* Mutant: the failure is returned without being reported.
FailWith_silent(e, reason, rv) == Result(e, rv, << >>)

\* the operation fails with rv after recording it with vb2api_fail
FailWith(e, reason, rv) ==
  Result(vb2api_fail(e, reason, U8(rv)), rv, << << reason, U8(rv) >> >>)

\* Mutant: the GBB flag is not consulted.
KeyblockVersionCheck_no_gbb(s, g, kb) ==
  IF kb.key_version > VB2_MAX_KEY_VERSION
    THEN VB2_ERROR("FW_KEYBLOCK_VERSION_RANGE")
  ELSE IF kb.key_version < Shr16(s.fw_version_secdata)
    THEN VB2_ERROR("FW_KEYBLOCK_VERSION_ROLLBACK")
  ELSE VB2_SUCCESS

\* The range and rollback checks on the data key version: the value of rv
\* after them.
KeyblockVersionCheck(s, g, kb) ==
  IF kb.key_version > VB2_MAX_KEY_VERSION
    THEN VB2_ERROR("FW_KEYBLOCK_VERSION_RANGE")
  ELSE IF /\ kb.key_version < Shr16(s.fw_version_secdata)
          /\ "DISABLE_FW_ROLLBACK_CHECK" \notin g.flags
    THEN VB2_ERROR("FW_KEYBLOCK_VERSION_ROLLBACK")
  ELSE VB2_SUCCESS

\* Mutant: the keyblock is allocated after its header, which is kept.
vb2_load_fw_keyblock_header_kept(e, g, kb) ==
  LET wb0 == vb2_workbuf_from_ctx(e.sd)
      \* the root key, the keyblock header after it, then the whole keyblock
      a1 == vb2_workbuf_alloc(wb0, g.rootkey_size)
      a2 == vb2_workbuf_alloc(a1.wb, SizeofKeyblock)
      a3 == vb2_workbuf_alloc(a2.wb, kb.keyblock_size)
      vrv == vb2_verify_keyblock(kb)
      krv == KeyblockVersionCheck(e.sd, g, kb)
      sd1 == [ e.sd EXCEPT !.fw_version = Shl16(kb.key_version),
                           !.vblock_preamble_offset = kb.keyblock_size ]
      \* the data key is moved down over the root key
      sd2 == [ sd1 EXCEPT
                 !.data_key_offset = a1.ptr,
                 !.data_key_size = kb.data_key_size,
                 !.workbuf_used = vb2_wb_round_up(a1.ptr + kb.data_key_size) ]
  IN  IF ~a1.ok THEN Result(e, VB2_ERROR("FW_KEYBLOCK_WORKBUF_ROOT_KEY"), << >>)
      ELSE IF kb.fault = "read_rootkey"
        THEN Result(e, VB2_ERROR("EX_READ_RESOURCE"), << >>)
      ELSE IF kb.fault = "unpack_rootkey"
        THEN Result(e, VB2_ERROR("UNPACK_KEY"), << >>)
      ELSE IF ~a2.ok THEN Result(e, VB2_ERROR("FW_KEYBLOCK_WORKBUF_HEADER"), << >>)
      ELSE IF kb.fault = "read_kb_header"
        THEN Result(e, VB2_ERROR("EX_READ_RESOURCE"), << >>)
      ELSE IF ~a3.ok THEN Result(e, VB2_ERROR("FW_KEYBLOCK_WORKBUF"), << >>)
      ELSE IF kb.fault = "read_kb"
        THEN Result(e, VB2_ERROR("EX_READ_RESOURCE"), << >>)
      ELSE IF vrv # VB2_SUCCESS
        THEN FailWith(e, VB2_RECOVERY("FW_KEYBLOCK"), vrv)
      ELSE IF krv # VB2_SUCCESS
        THEN FailWith(e, VB2_RECOVERY("FW_KEY_ROLLBACK"), krv)
      ELSE IF vb2_verify_packed_key_inside(kb) # VB2_SUCCESS
        THEN Result([ e EXCEPT !.sd = sd1 ],
                    vb2_verify_packed_key_inside(kb), << >>)
      ELSE Result([ e EXCEPT !.sd = sd2 ], VB2_SUCCESS, << >>)

\* vb2_error_t vb2_load_fw_keyblock(ctx) on GBB header g and a firmware
\* vblock whose keyblock is kb; kb.fault names the external call that
\* fails (a resource read, the root key unpack, the keyblock verification).
vb2_load_fw_keyblock(e, g, kb) ==
  LET wb0 == vb2_workbuf_from_ctx(e.sd)
      \* the root key, the keyblock header after it, then the whole keyblock
      a1 == vb2_workbuf_alloc(wb0, g.rootkey_size)
      a2 == vb2_workbuf_alloc(a1.wb, SizeofKeyblock)
      a3 == vb2_workbuf_realloc(a2.wb, SizeofKeyblock, kb.keyblock_size)
      vrv == vb2_verify_keyblock(kb)
      krv == KeyblockVersionCheck(e.sd, g, kb)
      sd1 == [ e.sd EXCEPT !.fw_version = Shl16(kb.key_version),
                           !.vblock_preamble_offset = kb.keyblock_size ]
      \* the data key is moved down over the root key
      sd2 == [ sd1 EXCEPT
                 !.data_key_offset = a1.ptr,
                 !.data_key_size = kb.data_key_size,
                 !.workbuf_used = vb2_wb_round_up(a1.ptr + kb.data_key_size) ]
  IN  IF ~a1.ok THEN Result(e, VB2_ERROR("FW_KEYBLOCK_WORKBUF_ROOT_KEY"), << >>)
      ELSE IF kb.fault = "read_rootkey"
        THEN Result(e, VB2_ERROR("EX_READ_RESOURCE"), << >>)
      ELSE IF kb.fault = "unpack_rootkey"
        THEN Result(e, VB2_ERROR("UNPACK_KEY"), << >>)
      ELSE IF ~a2.ok THEN Result(e, VB2_ERROR("FW_KEYBLOCK_WORKBUF_HEADER"), << >>)
      ELSE IF kb.fault = "read_kb_header"
        THEN Result(e, VB2_ERROR("EX_READ_RESOURCE"), << >>)
      ELSE IF ~a3.ok THEN Result(e, VB2_ERROR("FW_KEYBLOCK_WORKBUF"), << >>)
      ELSE IF kb.fault = "read_kb"
        THEN Result(e, VB2_ERROR("EX_READ_RESOURCE"), << >>)
      ELSE IF vrv # VB2_SUCCESS
        THEN FailWith(e, VB2_RECOVERY("FW_KEYBLOCK"), vrv)
      ELSE IF krv # VB2_SUCCESS
        THEN FailWith(e, VB2_RECOVERY("FW_KEY_ROLLBACK"), krv)
      ELSE IF vb2_verify_packed_key_inside(kb) # VB2_SUCCESS
        THEN Result([ e EXCEPT !.sd = sd1 ],
                    vb2_verify_packed_key_inside(kb), << >>)
      ELSE Result([ e EXCEPT !.sd = sd2 ], VB2_SUCCESS, << >>)

(***************************************************************************)
(* vb2_load_fw_preamble                                                    *)
(***************************************************************************)
\* vb2_verify_fw_preamble: signature check of the preamble with the data key
vb2_verify_fw_preamble(pre) ==
  IF pre.fault = "verify" THEN VB2_ERROR("PREAMBLE_SIG_INVALID")
  ELSE VB2_SUCCESS

\* Mutant: the GBB flag is not consulted.
PreambleVersionCheck_no_gbb(s, g, pre) ==
  IF pre.firmware_version > VB2_MAX_PREAMBLE_VERSION
    THEN VB2_ERROR("FW_PREAMBLE_VERSION_RANGE")
  ELSE IF s.fw_version < s.fw_version_secdata
    THEN VB2_ERROR("FW_PREAMBLE_VERSION_ROLLBACK")
  ELSE VB2_SUCCESS

\* The range and rollback checks on the firmware version, s.fw_version
\* being the combined version: the value of rv after them.
PreambleVersionCheck(s, g, pre) ==
  IF pre.firmware_version > VB2_MAX_PREAMBLE_VERSION
    THEN VB2_ERROR("FW_PREAMBLE_VERSION_RANGE")
  ELSE IF /\ s.fw_version < s.fw_version_secdata
          /\ "DISABLE_FW_ROLLBACK_CHECK" \notin g.flags
    THEN VB2_ERROR("FW_PREAMBLE_VERSION_ROLLBACK")
  ELSE VB2_SUCCESS

\* Mutant: the result of the last boot is not consulted.
FwRollForward_any_result(s) ==
  /\ s.fw_version > s.fw_version_secdata
  /\ s.last_fw_slot = s.fw_slot

\* The condition under which the version in secure storage rolls forward
FwRollForward(s) ==
  /\ s.fw_version > s.fw_version_secdata
  /\ s.last_fw_slot = s.fw_slot
  /\ s.last_fw_result = "SUCCESS"

\* Mutant: the preamble is recorded and the watermark is left below it.
vb2_load_fw_preamble_watermark_kept(e, g, pre) ==
  LET wb0 == vb2_workbuf_from_ctx(e.sd)
      a1 == vb2_workbuf_alloc(wb0, SizeofFwPreamble)
      a2 == vb2_workbuf_realloc(a1.wb, SizeofFwPreamble, pre.preamble_size)
      vrv == vb2_verify_fw_preamble(pre)
      \* combine with the key version from vb2_load_fw_keyblock
      sd1 == [ e.sd EXCEPT !.fw_version = BitOr(@, pre.firmware_version) ]
      e1 == [ e EXCEPT !.sd = sd1 ]
      prv == PreambleVersionCheck(sd1, g, pre)
      forward == FwRollForward(sd1)
      sd2 == IF forward
               THEN [ sd1 EXCEPT !.fw_version_secdata = sd1.fw_version ]
               ELSE sd1
      sec2 == IF forward
                THEN [ e.secdata EXCEPT !.fw_versions = sd1.fw_version ]
                ELSE e.secdata
      sd3 == [ sd2 EXCEPT
                 !.preamble_offset = a2.ptr,
                 !.preamble_size = pre.preamble_size ]
  IN  IF e.sd.data_key_size = 0
        THEN Result(e, VB2_ERROR("FW_PREAMBLE2_DATA_KEY"), << >>)
      ELSE IF pre.fault = "unpack_data_key"
        THEN Result(e, VB2_ERROR("UNPACK_KEY"), << >>)
      ELSE IF ~a1.ok
        THEN Result(e, VB2_ERROR("FW_PREAMBLE2_WORKBUF_HEADER"), << >>)
      ELSE IF pre.fault = "read_pre_header"
        THEN Result(e, VB2_ERROR("EX_READ_RESOURCE"), << >>)
      ELSE IF ~a2.ok
        THEN Result(e, VB2_ERROR("FW_PREAMBLE2_WORKBUF"), << >>)
      ELSE IF pre.fault = "read_pre"
        THEN Result(e, VB2_ERROR("EX_READ_RESOURCE"), << >>)
      ELSE IF vrv # VB2_SUCCESS
        THEN FailWith(e, VB2_RECOVERY("FW_PREAMBLE"), vrv)
      ELSE IF prv # VB2_SUCCESS
        THEN FailWith(e1, VB2_RECOVERY("FW_ROLLBACK"), prv)
      ELSE Result([ e EXCEPT !.sd = sd3, !.secdata = sec2 ],
                  VB2_SUCCESS, << >>)

\* Mutant: the preamble is recorded before its version is checked.
vb2_load_fw_preamble_recorded_early(e, g, pre) ==
  LET wb0 == vb2_workbuf_from_ctx(e.sd)
      a1 == vb2_workbuf_alloc(wb0, SizeofFwPreamble)
      a2 == vb2_workbuf_realloc(a1.wb, SizeofFwPreamble, pre.preamble_size)
      vrv == vb2_verify_fw_preamble(pre)
      \* combine with the key version from vb2_load_fw_keyblock
      sd1 == [ e.sd EXCEPT !.fw_version = BitOr(@, pre.firmware_version) ]
      e1 == [ e EXCEPT !.sd = sd1 ]
      prv == PreambleVersionCheck(sd1, g, pre)
      forward == FwRollForward(sd1)
      sd2 == IF forward
               THEN [ sd1 EXCEPT !.fw_version_secdata = sd1.fw_version ]
               ELSE sd1
      sec2 == IF forward
                THEN [ e.secdata EXCEPT !.fw_versions = sd1.fw_version ]
                ELSE e.secdata
      sd3 == [ sd2 EXCEPT
                 !.preamble_offset = a2.ptr,
                 !.preamble_size = pre.preamble_size,
                 !.workbuf_used = vb2_wb_round_up(a2.ptr + pre.preamble_size) ]
  IN  IF e.sd.data_key_size = 0
        THEN Result(e, VB2_ERROR("FW_PREAMBLE2_DATA_KEY"), << >>)
      ELSE IF pre.fault = "unpack_data_key"
        THEN Result(e, VB2_ERROR("UNPACK_KEY"), << >>)
      ELSE IF ~a1.ok
        THEN Result(e, VB2_ERROR("FW_PREAMBLE2_WORKBUF_HEADER"), << >>)
      ELSE IF pre.fault = "read_pre_header"
        THEN Result(e, VB2_ERROR("EX_READ_RESOURCE"), << >>)
      ELSE IF ~a2.ok
        THEN Result(e, VB2_ERROR("FW_PREAMBLE2_WORKBUF"), << >>)
      ELSE IF pre.fault = "read_pre"
        THEN Result(e, VB2_ERROR("EX_READ_RESOURCE"), << >>)
      ELSE IF vrv # VB2_SUCCESS
        THEN FailWith(e, VB2_RECOVERY("FW_PREAMBLE"), vrv)
      ELSE IF prv # VB2_SUCCESS
        THEN FailWith([ e EXCEPT !.sd = sd3 ], VB2_RECOVERY("FW_ROLLBACK"), prv)
      ELSE Result([ e EXCEPT !.sd = sd3, !.secdata = sec2 ],
                  VB2_SUCCESS, << >>)

\* vb2_error_t vb2_load_fw_preamble(ctx) on GBB header g and a firmware
\* vblock whose preamble is pre; pre.fault names the external call that
\* fails.
vb2_load_fw_preamble(e, g, pre) ==
  LET wb0 == vb2_workbuf_from_ctx(e.sd)
      a1 == vb2_workbuf_alloc(wb0, SizeofFwPreamble)
      a2 == vb2_workbuf_realloc(a1.wb, SizeofFwPreamble, pre.preamble_size)
      vrv == vb2_verify_fw_preamble(pre)
      \* combine with the key version from vb2_load_fw_keyblock
      sd1 == [ e.sd EXCEPT !.fw_version = BitOr(@, pre.firmware_version) ]
      e1 == [ e EXCEPT !.sd = sd1 ]
      prv == PreambleVersionCheck(sd1, g, pre)
      forward == FwRollForward(sd1)
      sd2 == IF forward
               THEN [ sd1 EXCEPT !.fw_version_secdata = sd1.fw_version ]
               ELSE sd1
      sec2 == IF forward
                THEN [ e.secdata EXCEPT !.fw_versions = sd1.fw_version ]
                ELSE e.secdata
      sd3 == [ sd2 EXCEPT
                 !.preamble_offset = a2.ptr,
                 !.preamble_size = pre.preamble_size,
                 !.workbuf_used = vb2_wb_round_up(a2.ptr + pre.preamble_size) ]
  IN  IF e.sd.data_key_size = 0
        THEN Result(e, VB2_ERROR("FW_PREAMBLE2_DATA_KEY"), << >>)
      ELSE IF pre.fault = "unpack_data_key"
        THEN Result(e, VB2_ERROR("UNPACK_KEY"), << >>)
      ELSE IF ~a1.ok
        THEN Result(e, VB2_ERROR("FW_PREAMBLE2_WORKBUF_HEADER"), << >>)
      ELSE IF pre.fault = "read_pre_header"
        THEN Result(e, VB2_ERROR("EX_READ_RESOURCE"), << >>)
      ELSE IF ~a2.ok
        THEN Result(e, VB2_ERROR("FW_PREAMBLE2_WORKBUF"), << >>)
      ELSE IF pre.fault = "read_pre"
        THEN Result(e, VB2_ERROR("EX_READ_RESOURCE"), << >>)
      ELSE IF vrv # VB2_SUCCESS
        THEN FailWith(e, VB2_RECOVERY("FW_PREAMBLE"), vrv)
      ELSE IF prv # VB2_SUCCESS
        THEN FailWith(e1, VB2_RECOVERY("FW_ROLLBACK"), prv)
      ELSE Result([ e EXCEPT !.sd = sd3, !.secdata = sec2 ],
                  VB2_SUCCESS, << >>)

\* uint32_t vb2api_get_firmware_size(ctx); data_size is
\* body_signature.data_size of the preamble in the work buffer
vb2api_get_firmware_size(s, data_size) ==
  IF s.preamble_size = 0 THEN 0 ELSE data_size

(***************************************************************************)
(* Kernel stage: vb2api_kernel_phase1, vb2api_kernel_phase3, VbBootNormal  *)
(***************************************************************************)
\* VB2_DIE: not a return value, the system halts
VB2_DIE == 0 - 1

\* int vb2_allow_recovery(ctx); ec_trusted is what vb2ex_ec_trusted returns
vb2_allow_recovery(e, g, ec_trusted) ==
  IF "FORCE_MANUAL_RECOVERY" \in g.flags THEN TRUE
  ELSE IF ~ec_trusted THEN FALSE
  ELSE "MANUAL_RECOVERY" \in e.sd.flags

\* Mutant: a failure of the secdata_fwmp initialisation is ignored.
vb2api_kernel_phase1_fwmp_ignored(e, g, in) ==
  LET recovery == "RECOVERY_MODE" \in e.flags
      wb0 == vb2_workbuf_from_ctx(e.sd)
      ver == e.secdata.kernel_versions
      sd1 == [ e.sd EXCEPT !.kernel_version_secdata = ver ]
      e1 == [ e EXCEPT !.sd = sd1,
                       !.shared = [ @ EXCEPT !.kernel_version_tpm = ver,
                                             !.kernel_version_tpm_start = ver ] ]
      \* vb2_gbb_read_recovery_key puts the key into the work buffer
      a1 == vb2_workbuf_alloc(wb0, g.recovery_key_size)
      key == IF recovery THEN "GBB_RECOVERY_KEY" ELSE "FW_PREAMBLE_KERNEL_SUBKEY"
      used == IF recovery THEN a1.wb.buf ELSE wb0.buf
      sd2 == [ sd1 EXCEPT !.kernel_key_offset = key,
                          !.kernel_key_size = in.key_size,
                          !.workbuf_used = vb2_wb_round_up(used) ]
  IN  IF in.fault = "secdata_kernel_init" /\ ~recovery
        THEN FailWith(e, VB2_RECOVERY("SECDATA_KERNEL_INIT"),
                      VB2_ERROR("SECDATA_KERNEL_CRC"))
      ELSE IF recovery /\ (in.fault = "read_recovery_key" \/ ~a1.ok)
        THEN IF vb2_allow_recovery(e1, g, in.ec_trusted)
               THEN Result(e1, VB2_DIE, << >>)
               ELSE Result(e1, VB2_SUCCESS, << >>)
      ELSE IF ~recovery /\ e1.sd.preamble_size = 0
        THEN Result(e1, VB2_ERROR("API_KPHASE1_PREAMBLE"), << >>)
      ELSE Result([ e1 EXCEPT !.sd = sd2 ], VB2_SUCCESS, << >>)

\* Mutant: the kernel subkey of the firmware preamble is recorded in
\* recovery mode too.
vb2api_kernel_phase1_subkey_always(e, g, in) ==
  LET recovery == "RECOVERY_MODE" \in e.flags
      wb0 == vb2_workbuf_from_ctx(e.sd)
      ver == e.secdata.kernel_versions
      sd1 == [ e.sd EXCEPT !.kernel_version_secdata = ver ]
      e1 == [ e EXCEPT !.sd = sd1,
                       !.shared = [ @ EXCEPT !.kernel_version_tpm = ver,
                                             !.kernel_version_tpm_start = ver ] ]
      \* vb2_gbb_read_recovery_key puts the key into the work buffer
      a1 == vb2_workbuf_alloc(wb0, g.recovery_key_size)
      key == "FW_PREAMBLE_KERNEL_SUBKEY"
      used == IF recovery THEN a1.wb.buf ELSE wb0.buf
      sd2 == [ sd1 EXCEPT !.kernel_key_offset = key,
                          !.kernel_key_size = in.key_size,
                          !.workbuf_used = vb2_wb_round_up(used) ]
  IN  IF in.fault = "secdata_kernel_init" /\ ~recovery
        THEN FailWith(e, VB2_RECOVERY("SECDATA_KERNEL_INIT"),
                      VB2_ERROR("SECDATA_KERNEL_CRC"))
      ELSE IF in.fault = "secdata_fwmp_init" /\ ~recovery
        THEN FailWith(e, VB2_RECOVERY("SECDATA_FWMP_INIT"),
                      VB2_ERROR("SECDATA_FWMP_CRC"))
      ELSE IF recovery /\ (in.fault = "read_recovery_key" \/ ~a1.ok)
        THEN IF vb2_allow_recovery(e1, g, in.ec_trusted)
               THEN Result(e1, VB2_DIE, << >>)
               ELSE Result(e1, VB2_SUCCESS, << >>)
      ELSE IF ~recovery /\ e1.sd.preamble_size = 0
        THEN Result(e1, VB2_ERROR("API_KPHASE1_PREAMBLE"), << >>)
      ELSE Result([ e1 EXCEPT !.sd = sd2 ], VB2_SUCCESS, << >>)

\* vb2_error_t vb2api_kernel_phase1(ctx); in.fault names the external call
\* that fails, in.key_size is the size of the packed key that is found
vb2api_kernel_phase1(e, g, in) ==
  LET recovery == "RECOVERY_MODE" \in e.flags
      wb0 == vb2_workbuf_from_ctx(e.sd)
      ver == e.secdata.kernel_versions
      sd1 == [ e.sd EXCEPT !.kernel_version_secdata = ver ]
      e1 == [ e EXCEPT !.sd = sd1,
                       !.shared = [ @ EXCEPT !.kernel_version_tpm = ver,
                                             !.kernel_version_tpm_start = ver ] ]
      \* vb2_gbb_read_recovery_key puts the key into the work buffer
      a1 == vb2_workbuf_alloc(wb0, g.recovery_key_size)
      key == IF recovery THEN "GBB_RECOVERY_KEY" ELSE "FW_PREAMBLE_KERNEL_SUBKEY"
      used == IF recovery THEN a1.wb.buf ELSE wb0.buf
      sd2 == [ sd1 EXCEPT !.kernel_key_offset = key,
                          !.kernel_key_size = in.key_size,
                          !.workbuf_used = vb2_wb_round_up(used) ]
  IN  IF in.fault = "secdata_kernel_init" /\ ~recovery
        THEN FailWith(e, VB2_RECOVERY("SECDATA_KERNEL_INIT"),
                      VB2_ERROR("SECDATA_KERNEL_CRC"))
      ELSE IF in.fault = "secdata_fwmp_init" /\ ~recovery
        THEN FailWith(e, VB2_RECOVERY("SECDATA_FWMP_INIT"),
                      VB2_ERROR("SECDATA_FWMP_CRC"))
      ELSE IF recovery /\ (in.fault = "read_recovery_key" \/ ~a1.ok)
        THEN IF vb2_allow_recovery(e1, g, in.ec_trusted)
               THEN Result(e1, VB2_DIE, << >>)
               ELSE Result(e1, VB2_SUCCESS, << >>)
      ELSE IF ~recovery /\ e1.sd.preamble_size = 0
        THEN Result(e1, VB2_ERROR("API_KPHASE1_PREAMBLE"), << >>)
      ELSE Result([ e1 EXCEPT !.sd = sd2 ], VB2_SUCCESS, << >>)

\* Mutant: the roll forward is not held back in recovery mode.
vb2api_kernel_phase3_in_recovery(e) ==
  IF /\ e.sd.kernel_version > e.sd.kernel_version_secdata
     /\ "KERNEL_SIGNED" \in e.sd.flags
     /\ "ALLOW_KERNEL_ROLL_FORWARD" \in e.flags
    THEN Result([ e EXCEPT
                    !.secdata = [ @ EXCEPT !.kernel_versions = e.sd.kernel_version ],
                    !.sd = [ @ EXCEPT !.kernel_version_secdata = e.sd.kernel_version ] ],
                VB2_SUCCESS, << >>)
    ELSE Result(e, VB2_SUCCESS, << >>)

\* vb2_error_t vb2api_kernel_phase3(ctx)
vb2api_kernel_phase3(e) ==
  IF /\ e.sd.kernel_version > e.sd.kernel_version_secdata
     /\ "KERNEL_SIGNED" \in e.sd.flags
     /\ "RECOVERY_MODE" \notin e.flags
     /\ "ALLOW_KERNEL_ROLL_FORWARD" \in e.flags
    THEN Result([ e EXCEPT
                    !.secdata = [ @ EXCEPT !.kernel_versions = e.sd.kernel_version ],
                    !.sd = [ @ EXCEPT !.kernel_version_secdata = e.sd.kernel_version ] ],
                VB2_SUCCESS, << >>)
    ELSE Result(e, VB2_SUCCESS, << >>)

\* LoadKernel on one disk: external; it returns d.rv and, when it found a
\* kernel, leaves d.kver in shared->kernel_version_tpm
LoadKernel(e, d) ==
  IF d.rv = VB2_SUCCESS
    THEN [ e EXCEPT !.shared = [ @ EXCEPT !.kernel_version_tpm = d.kver ] ]
    ELSE e

\* Mutant: the error of the last disk replaces an earlier
\* INVALID_KERNEL_FOUND.
RECURSIVE VbTryLoadKernelLoop_last_error(_, _, _)
VbTryLoadKernelLoop_last_error(e, disks, rv) ==
  IF disks = << >> THEN [ e |-> e, rv |-> rv, found |-> FALSE ]
  ELSE LET d == Head(disks)
           e1 == LoadKernel(e, d)
       IN  IF ~d.usable THEN VbTryLoadKernelLoop_last_error(e, Tail(disks), rv)
           ELSE IF d.rv = VB2_SUCCESS
             THEN [ e |-> e1, rv |-> VB2_SUCCESS, found |-> TRUE ]
           ELSE VbTryLoadKernelLoop_last_error(e1, Tail(disks), d.rv)

\* the loop over disks of VbTryLoadKernel: the engine state and rv after it,
\* found when a kernel was loaded
RECURSIVE VbTryLoadKernelLoop(_, _, _)
VbTryLoadKernelLoop(e, disks, rv) ==
  IF disks = << >> THEN [ e |-> e, rv |-> rv, found |-> FALSE ]
  ELSE LET d == Head(disks)
           e1 == LoadKernel(e, d)
       IN  IF ~d.usable THEN VbTryLoadKernelLoop(e, Tail(disks), rv)
           ELSE IF d.rv = VB2_SUCCESS
             THEN [ e |-> e1, rv |-> VB2_SUCCESS, found |-> TRUE ]
           ELSE VbTryLoadKernelLoop(e1, Tail(disks),
                  IF rv # VB2_ERROR("LK_INVALID_KERNEL_FOUND") THEN d.rv ELSE rv)

\* the recovery reason VbTryLoadKernel reports for a failed fixed-disk load
LoadFailureReason(rv) ==
  IF rv = VB2_ERROR("LK_INVALID_KERNEL_FOUND") THEN VB2_RECOVERY("RW_INVALID_OS")
  ELSE IF rv = VB2_ERROR("LK_NO_KERNEL_FOUND") THEN VB2_RECOVERY("RW_NO_KERNEL")
  ELSE IF rv = VB2_ERROR("LK_NO_DISK_FOUND") THEN VB2_RECOVERY("RW_NO_DISK")
  ELSE VB2_RECOVERY("LK_UNSPECIFIED")

\* vb2_error_t VbTryLoadKernel(ctx, get_info_flags); disks is what
\* VbExDiskGetInfo reports (empty when it fails), fixed is the FIXED bit of
\* get_info_flags
VbTryLoadKernel(e, fixed, disks) ==
  LET r == VbTryLoadKernelLoop(e, disks, VB2_ERROR("LK_NO_DISK_FOUND"))
  IN  IF r.found THEN Result(r.e, VB2_SUCCESS, << >>)
      ELSE IF fixed THEN FailWith(r.e, LoadFailureReason(r.rv), r.rv)
      ELSE Result(r.e, r.rv, << >>)

\* static int vb2_reset_nv_requests(ctx): [nv, need_reboot]
vb2_reset_nv_requests(n) ==
  [ nv |-> [ n EXCEPT !.display_request = 0, !.diag_request = 0 ],
    need_reboot |-> n.display_request # 0 \/ n.diag_request # 0 ]

\* Mutant: the roll forward is not limited by kernel_max_rollforward.
VbBootNormal_uncapped(e, disks) ==
  LET reset == vb2_reset_nv_requests(e.nv)
      r == VbTryLoadKernel(e, TRUE, disks)
      start == r.e.shared.kernel_version_tpm_start
      tpm == r.e.shared.kernel_version_tpm
      e2 == IF tpm > start
              THEN [ r.e EXCEPT !.secdata = [ @ EXCEPT !.kernel_versions = tpm ] ]
              ELSE r.e
  IN  IF reset.need_reboot
        THEN Result([ e EXCEPT !.nv = reset.nv ],
                    VB2_ERROR("REBOOT_REQUIRED"), << >>)
      ELSE IF r.e.nv.fw_result = "TRYING" THEN r
      ELSE Result(e2, r.rv, r.fails)

\* Mutant: the roll forward also happens while a new firmware slot is tried.
VbBootNormal_while_trying(e, disks) ==
  LET max_rollforward == e.nv.kernel_max_rollforward
      reset == vb2_reset_nv_requests(e.nv)
      r == VbTryLoadKernel(e, TRUE, disks)
      start == r.e.shared.kernel_version_tpm_start
      cap == IF max_rollforward < start THEN start ELSE max_rollforward
      tpm == IF r.e.shared.kernel_version_tpm > cap
               THEN cap ELSE r.e.shared.kernel_version_tpm
      e1 == [ r.e EXCEPT !.shared = [ @ EXCEPT !.kernel_version_tpm = tpm ] ]
      e2 == IF tpm > start
              THEN [ e1 EXCEPT !.secdata = [ @ EXCEPT !.kernel_versions = tpm ] ]
              ELSE e1
  IN  IF reset.need_reboot
        THEN Result([ e EXCEPT !.nv = reset.nv ],
                    VB2_ERROR("REBOOT_REQUIRED"), << >>)
      ELSE Result(e2, r.rv, r.fails)

\* vb2_error_t VbBootNormal(ctx)
VbBootNormal(e, disks) ==
  LET max_rollforward == e.nv.kernel_max_rollforward
      reset == vb2_reset_nv_requests(e.nv)
      r == VbTryLoadKernel(e, TRUE, disks)
      start == r.e.shared.kernel_version_tpm_start
      cap == IF max_rollforward < start THEN start ELSE max_rollforward
      tpm == IF r.e.shared.kernel_version_tpm > cap
               THEN cap ELSE r.e.shared.kernel_version_tpm
      e1 == [ r.e EXCEPT !.shared = [ @ EXCEPT !.kernel_version_tpm = tpm ] ]
      e2 == IF tpm > start
              THEN [ e1 EXCEPT !.secdata = [ @ EXCEPT !.kernel_versions = tpm ] ]
              ELSE e1
  IN  IF reset.need_reboot
        THEN Result([ e EXCEPT !.nv = reset.nv ],
                    VB2_ERROR("REBOOT_REQUIRED"), << >>)
      ELSE IF r.e.nv.fw_result = "TRYING" THEN r
      ELSE Result(e2, r.rv, r.fails)

(***************************************************************************)
(* Kernel body: vb2api_get_kernel_size, vb2api_verify_kernel_data          *)
(***************************************************************************)
\* sizeof(struct vb2_digest_context): the SHA-512 context is its largest
\* member
SizeofDigestContext == 336

VB2_SHA256_DIGEST_SIZE == 32

\* pre->body_signature.data_size of the preamble in the work buffer
KernelBodySize == 64

\* vb2_error_t vb2api_get_kernel_size(ctx, offset_ptr, size_ptr): it reads
\* the shared data and writes to the caller's two pointers only.
vb2api_get_kernel_size(e) ==
  IF e.sd.preamble_size = 0
    THEN Result(e, VB2_ERROR("API_GET_KERNEL_SIZE_PREAMBLE"), << >>)
    ELSE Result(e, VB2_SUCCESS, << >>)

\* the value vb2api_get_kernel_size stores through offset_ptr
KernelBodyOffset(s) == s.vblock_preamble_offset + s.preamble_size

\* vb2api_verify_kernel_data without the comparison of the size
vb2api_verify_kernel_data_any_size(e, in) ==
  LET a1 == vb2_workbuf_alloc(vb2_workbuf_from_ctx(e.sd), SizeofDigestContext)
      a2 == vb2_workbuf_alloc(a1.wb, VB2_SHA256_DIGEST_SIZE)
      rv == IF e.sd.preamble_size = 0
              THEN VB2_ERROR("API_VERIFY_KDATA_PREAMBLE")
            ELSE IF ~a1.ok THEN VB2_ERROR("API_VERIFY_KDATA_WORKBUF")
            ELSE IF e.sd.data_key_size = 0
              THEN VB2_ERROR("API_VERIFY_KDATA_KEY")
            ELSE IF in.fault = "unpack_key" THEN VB2_ERROR("UNPACK_KEY")
            ELSE IF ~a2.ok THEN VB2_ERROR("API_CHECK_HASH_WORKBUF_DIGEST")
            ELSE IF in.fault = "verify_digest"
              THEN VB2_ERROR("VDATA_VERIFY_DIGEST")
            ELSE VB2_SUCCESS
  IN  Result(e, rv, << >>)

\* vb2_error_t vb2api_verify_kernel_data(ctx, buf, size): in.size is the
\* size the caller passes, in.fault names the external call that fails.
\* The digest context and the digest live in the free part of the work
\* buffer; the shared data is not written.
vb2api_verify_kernel_data(e, in) ==
  LET a1 == vb2_workbuf_alloc(vb2_workbuf_from_ctx(e.sd), SizeofDigestContext)
      a2 == vb2_workbuf_alloc(a1.wb, VB2_SHA256_DIGEST_SIZE)
      rv == IF e.sd.preamble_size = 0
              THEN VB2_ERROR("API_VERIFY_KDATA_PREAMBLE")
            ELSE IF in.size # KernelBodySize
              THEN VB2_ERROR("API_VERIFY_KDATA_SIZE")
            ELSE IF ~a1.ok THEN VB2_ERROR("API_VERIFY_KDATA_WORKBUF")
            ELSE IF e.sd.data_key_size = 0
              THEN VB2_ERROR("API_VERIFY_KDATA_KEY")
            ELSE IF in.fault = "unpack_key" THEN VB2_ERROR("UNPACK_KEY")
            ELSE IF ~a2.ok THEN VB2_ERROR("API_CHECK_HASH_WORKBUF_DIGEST")
            ELSE IF in.fault = "verify_digest"
              THEN VB2_ERROR("VDATA_VERIFY_DIGEST")
            ELSE VB2_SUCCESS
  IN  Result(e, rv, << >>)

(***************************************************************************)
(* vb2_commit_data and the boot paths of VbSelectAndLoadKernel             *)
(***************************************************************************)
\* a result together with the external functions that were called
ResultExt(e, rv, fails, ext) ==
  [ e |-> e, rv |-> rv, fails |-> fails, ext |-> ext ]

\* VB2_REC_OR_DIE(ctx, ...): TRUE when the system halts, which it does
\* unless the context is in recovery mode
VB2_REC_OR_DIE(e) == "RECOVERY_MODE" \notin e.flags

\* Mutant: the commit is not run again after a secdata write failure.
vb2_commit_data_no_retry(e, first) ==
  LET recovery == "RECOVERY_MODE" \in e.flags
      hook == "vb2ex_commit_data"
      f == FailWith(e, VB2_RECOVERY("RW_TPM_W_ERROR"), first)
  IN  IF first = VB2_SUCCESS
        THEN ResultExt(e, VB2_SUCCESS, << >>, << hook >>)
      ELSE IF first \in { VB2_ERROR("SECDATA_FIRMWARE_WRITE"),
                          VB2_ERROR("SECDATA_KERNEL_WRITE") }
        THEN IF ~recovery
               THEN ResultExt(f.e, f.rv, f.fails, << hook >>)
               ELSE ResultExt(e, VB2_SUCCESS, << >>, << hook >>)
      ELSE IF VB2_REC_OR_DIE(e)
        THEN ResultExt(e, VB2_DIE, << >>, << hook >>)
      ELSE ResultExt(e, VB2_SUCCESS, << >>, << hook >>)

\* Mutant: an NV write failure is reported like a secdata write failure.
vb2_commit_data_nv_write_recovers(e, first) ==
  LET recovery == "RECOVERY_MODE" \in e.flags
      hook == "vb2ex_commit_data"
      f == FailWith(e, VB2_RECOVERY("RW_TPM_W_ERROR"), first)
  IN  IF first = VB2_SUCCESS
        THEN ResultExt(e, VB2_SUCCESS, << >>, << hook >>)
      ELSE IF ~recovery
        THEN ResultExt(f.e, f.rv, f.fails, << hook, hook >>)
      ELSE ResultExt(e, VB2_SUCCESS, << >>, << hook >>)

\* vb2_error_t vb2_commit_data(ctx); first is what the first call of
\* vb2ex_commit_data returns (what the second call returns is discarded)
vb2_commit_data(e, first) ==
  LET recovery == "RECOVERY_MODE" \in e.flags
      hook == "vb2ex_commit_data"
      f == FailWith(e, VB2_RECOVERY("RW_TPM_W_ERROR"), first)
  IN  IF first = VB2_SUCCESS
        THEN ResultExt(e, VB2_SUCCESS, << >>, << hook >>)
      ELSE IF first \in { VB2_ERROR("SECDATA_FIRMWARE_WRITE"),
                          VB2_ERROR("SECDATA_KERNEL_WRITE") }
        THEN IF ~recovery
               THEN ResultExt(f.e, f.rv, f.fails, << hook, hook >>)
               ELSE ResultExt(e, VB2_SUCCESS, << >>, << hook >>)
      \* VB2_ERROR_NV_WRITE and, falling through, every other code
      ELSE IF VB2_REC_OR_DIE(e)
        THEN ResultExt(e, VB2_DIE, << >>, << hook >>)
      ELSE ResultExt(e, VB2_SUCCESS, << >>, << hook >>)

\* r, then the external functions ext were called
Called(ext, r) ==
  ResultExt(r.e, r.rv, r.fails,
            ext \o (IF "ext" \in DOMAIN r THEN r.ext ELSE << >>))

\* r, turned into the result rv
Turned(rv, r) ==
  ResultExt(r.e, rv, r.fails, IF "ext" \in DOMAIN r THEN r.ext ELSE << >>)

\* handle_battery_cutoff after its commit c: the battery is cut off
BatteryCutoff(c) ==
  IF c.rv # VB2_SUCCESS THEN c
  ELSE ResultExt(c.e, VB2_ERROR("SHUTDOWN_REQUESTED"), c.fails,
                 c.ext \o << "vb2ex_ec_battery_cutoff" >>)

\* static vb2_error_t handle_battery_cutoff(ctx)
handle_battery_cutoff(e, first) ==
  IF e.nv.battery_cutoff_request = 0
    THEN ResultExt(e, VB2_SUCCESS, << >>, << >>)
    ELSE BatteryCutoff(vb2_commit_data(
           [ e EXCEPT !.nv = [ @ EXCEPT !.battery_cutoff_request = 0 ] ],
           first))

\* static vb2_error_t vb2_kernel_setup(ctx, shared, kparams): the boot mode
\* is copied into the context flags
vb2_kernel_setup(e) ==
  LET f1 == IF e.sd.recovery_reason # 0
              THEN e.flags \cup {"RECOVERY_MODE"} ELSE e.flags
      f2 == IF "DEV_MODE_ENABLED" \in e.sd.flags
              THEN f1 \cup {"DEVELOPER_MODE"} ELSE f1
  IN  [ e EXCEPT !.flags = f2 ]

\* what vb2_secdata_firmware_get(FLAGS) returns: 0 before secdata_firmware
\* is initialised (recovery mode; outside it the system halts)
SecdataFirmwareFlags(e) ==
  IF "SECDATA_FIRMWARE_INIT" \in e.sd.status THEN e.secdata.flags ELSE {}

\* vb2_secdata_firmware_set(FLAGS, f): ignored before secdata_firmware is
\* initialised
SecdataFirmwareSetFlags(e, f) ==
  IF "SECDATA_FIRMWARE_INIT" \in e.sd.status
    THEN [ e EXCEPT !.secdata = [ @ EXCEPT !.flags = f ] ]
    ELSE e

\* vb2_error_t vb2_enable_developer_mode(ctx)
vb2_enable_developer_mode(e) ==
  IF "SECDATA_FIRMWARE_INIT" \notin e.sd.status /\ VB2_REC_OR_DIE(e)
    THEN ResultExt(e, VB2_DIE, << >>, << >>)
    ELSE ResultExt(SecdataFirmwareSetFlags(e, SecdataFirmwareFlags(e)
                                                \cup {"DEV_MODE"}),
                   VB2_SUCCESS, << >>, << >>)

(***************************************************************************)
(* The recovery UI: VbUserConfirms, recovery_ui, VbBootRecovery            *)
(***************************************************************************)
\* VB2_WAITING: not a return value, the UI waits for the next key
VB2_WAITING == 0 - 2

\* One turn of a UI loop: the key VbExKeyboardReadWithFlags returns and
\* whether it comes from a trusted keyboard, whether VbExGetSwitches reports
\* the physical presence button pressed, whether vb2_want_shutdown sees a
\* shutdown request, and the disks VbExDiskGetInfo reports in that turn.
UiTurn(key, trusted, presence, shutdown, disks) ==
  [ key |-> key, trusted |-> trusted, presence |-> presence,
    shutdown |-> shutdown, disks |-> disks ]

\* the answer of VbUserConfirms and the turns it left; done is FALSE when
\* the turns ran out before an answer
Confirmed(done, answer, rest) ==
  [ done |-> done, answer |-> answer, rest |-> rest ]

\* Mutant: ENTER confirms from any keyboard.
RECURSIVE VbUserConfirms_any_keyboard(_, _, _, _)
VbUserConfirms_any_keyboard(turns, confirm_flags, keyboard_presence, was_pressed) ==
  IF turns = << >> THEN Confirmed(FALSE, 0, << >>)
  ELSE LET t == Head(turns)
           rest == Tail(turns)
           button == ~keyboard_presence /\ t.presence
           next == IF t.shutdown THEN Confirmed(TRUE, 0 - 1, rest)
                   ELSE VbUserConfirms_any_keyboard(rest, confirm_flags,
                                                    keyboard_presence, was_pressed)
       IN  IF t.key = "ENTER" THEN Confirmed(TRUE, 1, rest)
           ELSE IF t.key = "SPACE"
             THEN IF "SPACE_MEANS_NO" \in confirm_flags
                    THEN Confirmed(TRUE, 0, rest) ELSE next
           ELSE IF t.key = "ESC" THEN Confirmed(TRUE, 0, rest)
           ELSE IF button
             THEN IF t.shutdown THEN Confirmed(TRUE, 0 - 1, rest)
                  ELSE VbUserConfirms_any_keyboard(rest, confirm_flags,
                                                   keyboard_presence, TRUE)
           ELSE IF ~keyboard_presence /\ was_pressed
             THEN Confirmed(TRUE, 1, rest)
           ELSE next

\* int VbUserConfirms(ctx, confirm_flags): 1 for yes, 0 for no, -1 for a
\* shutdown request; keyboard_presence is PHYSICAL_PRESENCE_KEYBOARD and
\* was_pressed is phys_presence_button_was_pressed
RECURSIVE VbUserConfirms(_, _, _, _)
VbUserConfirms(turns, confirm_flags, keyboard_presence, was_pressed) ==
  IF turns = << >> THEN Confirmed(FALSE, 0, << >>)
  ELSE LET t == Head(turns)
           rest == Tail(turns)
           button == ~keyboard_presence /\ t.presence
           \* the end of the loop body: while (!shutdown_requested)
           next == IF t.shutdown THEN Confirmed(TRUE, 0 - 1, rest)
                   ELSE VbUserConfirms(rest, confirm_flags,
                                       keyboard_presence, was_pressed)
       IN  IF t.key = "ENTER"
             THEN IF "MUST_TRUST_KEYBOARD" \notin confirm_flags \/ t.trusted
                    THEN Confirmed(TRUE, 1, rest) ELSE next
           ELSE IF t.key = "SPACE"
             THEN IF "SPACE_MEANS_NO" \in confirm_flags
                    THEN Confirmed(TRUE, 0, rest) ELSE next
           ELSE IF t.key = "ESC" THEN Confirmed(TRUE, 0, rest)
           ELSE IF button
             THEN IF t.shutdown THEN Confirmed(TRUE, 0 - 1, rest)
                  ELSE VbUserConfirms(rest, confirm_flags,
                                      keyboard_presence, TRUE)
           ELSE IF ~keyboard_presence /\ was_pressed
             THEN Confirmed(TRUE, 1, rest)
           ELSE next

\* the last of the turns VbUserConfirms read before it answered c
LastTurn(turns, c) == turns[Len(turns) - Len(c.rest)]

\* vb2_error_t vb2_check_diagnostic_key(ctx, key): TRUE when the key asks
\* for the diagnostic mode
IsDiagnosticKey(ui, key) == ui.DIAGNOSTIC_UI /\ key \in { "CTRL_C", "F12" }

\* the diagnostic request vb2_check_diagnostic_key leaves before the reboot
DiagnosticRequested(e, ext) ==
  ResultExt([ e EXCEPT !.nv = [ @ EXCEPT !.diag_request = 1 ] ],
            VB2_ERROR("REBOOT_REQUIRED"), << >>, ext)

\* the loop of recovery_ui on the broken screen
RECURSIVE BrokenScreen(_, _, _, _)
BrokenScreen(e, ui, turns, ext) ==
  IF turns = << >> THEN ResultExt(e, VB2_WAITING, << >>, ext)
  ELSE IF Head(turns).shutdown
    THEN ResultExt(e, VB2_ERROR("SHUTDOWN_REQUESTED"), << >>, ext)
  ELSE IF IsDiagnosticKey(ui, Head(turns).key)
    THEN DiagnosticRequested(e, ext)
  ELSE BrokenScreen(e, ui, Tail(turns), ext)

\* recovery_ui after the user confirmed the switch to developer mode; r is
\* what vb2_enable_developer_mode returned
DeveloperModeEnabled(r, ui, ext) ==
  IF r.rv = VB2_DIE THEN ResultExt(r.e, VB2_DIE, << >>, ext)
  ELSE IF r.rv # VB2_SUCCESS
    THEN ResultExt(r.e, VB2_ERROR("TPM_SET_BOOT_MODE_STATE"), << >>, ext)
  ELSE ResultExt(IF ui.USB_BOOT_ON_DEV
                   THEN [ r.e EXCEPT !.nv = [ @ EXCEPT !.dev_boot_usb = 1 ] ]
                   ELSE r.e,
                 VB2_ERROR("EC_REBOOT_TO_RO_REQUIRED"), << >>, ext)

\* Mutant: Ctrl+D is honoured when the recovery was not asked for by the
\* user.
RECURSIVE InsertScreen_any_recovery(_, _, _, _)
InsertScreen_any_recovery(e, ui, turns, ext) ==
  IF turns = << >> THEN ResultExt(e, VB2_WAITING, << >>, ext)
  ELSE LET t == Head(turns)
           rest == Tail(turns)
           l == VbTryLoadKernel(e, FALSE, t.disks)
           ext1 == ext \o << "VbTryLoadKernel" >>
           c == VbUserConfirms(rest, {"SPACE_MEANS_NO", "MUST_TRUST_KEYBOARD"},
                               ui.PHYSICAL_PRESENCE_KEYBOARD, FALSE)
           ext2 == ext1 \o << "VbUserConfirms" >>
       IN  IF l.rv = VB2_SUCCESS THEN ResultExt(l.e, VB2_SUCCESS, << >>, ext1)
           ELSE IF /\ t.key = "CTRL_D"
                   /\ "DEV_MODE_ENABLED" \notin l.e.sd.flags
             THEN IF ~ui.PHYSICAL_PRESENCE_KEYBOARD /\ t.presence
                    THEN InsertScreen_any_recovery(l.e, ui, rest, ext1)
                  ELSE IF ~c.done THEN ResultExt(l.e, VB2_WAITING, << >>, ext2)
                  ELSE IF c.answer = 1
                    THEN DeveloperModeEnabled(
                           vb2_enable_developer_mode(l.e), ui,
                           ext2 \o << "vb2_enable_developer_mode" >>)
                  ELSE IF c.answer = 0 - 1 \/ LastTurn(rest, c).shutdown
                    THEN ResultExt(l.e, VB2_ERROR("SHUTDOWN_REQUESTED"),
                                   << >>, ext2)
                  ELSE InsertScreen_any_recovery(l.e, ui, c.rest, ext2)
           ELSE IF IsDiagnosticKey(ui, t.key) THEN DiagnosticRequested(l.e, ext1)
           ELSE IF t.shutdown
             THEN ResultExt(l.e, VB2_ERROR("SHUTDOWN_REQUESTED"), << >>, ext1)
           ELSE InsertScreen_any_recovery(l.e, ui, rest, ext1)

\* the loop of recovery_ui that waits for a recovery image
RECURSIVE InsertScreen(_, _, _, _)
InsertScreen(e, ui, turns, ext) ==
  IF turns = << >> THEN ResultExt(e, VB2_WAITING, << >>, ext)
  ELSE LET t == Head(turns)
           rest == Tail(turns)
           l == VbTryLoadKernel(e, FALSE, t.disks)
           ext1 == ext \o << "VbTryLoadKernel" >>
           c == VbUserConfirms(rest, {"SPACE_MEANS_NO", "MUST_TRUST_KEYBOARD"},
                               ui.PHYSICAL_PRESENCE_KEYBOARD, FALSE)
           ext2 == ext1 \o << "VbUserConfirms" >>
       IN  IF l.rv = VB2_SUCCESS THEN ResultExt(l.e, VB2_SUCCESS, << >>, ext1)
           ELSE IF /\ t.key = "CTRL_D"
                   /\ "DEV_MODE_ENABLED" \notin l.e.sd.flags
                   /\ "MANUAL_RECOVERY" \in l.e.sd.flags
             THEN \* a pressed presence button: beep and continue
                  IF ~ui.PHYSICAL_PRESENCE_KEYBOARD /\ t.presence
                    THEN InsertScreen(l.e, ui, rest, ext1)
                  ELSE IF ~c.done THEN ResultExt(l.e, VB2_WAITING, << >>, ext2)
                  ELSE IF c.answer = 1
                    THEN DeveloperModeEnabled(
                           vb2_enable_developer_mode(l.e), ui,
                           ext2 \o << "vb2_enable_developer_mode" >>)
                  ELSE IF c.answer = 0 - 1 \/ LastTurn(rest, c).shutdown
                    THEN ResultExt(l.e, VB2_ERROR("SHUTDOWN_REQUESTED"),
                                   << >>, ext2)
                  ELSE InsertScreen(l.e, ui, c.rest, ext2)
           ELSE IF IsDiagnosticKey(ui, t.key) THEN DiagnosticRequested(l.e, ext1)
           ELSE IF t.shutdown
             THEN ResultExt(l.e, VB2_ERROR("SHUTDOWN_REQUESTED"), << >>, ext1)
           ELSE InsertScreen(l.e, ui, rest, ext1)

\* r, after the failures fails were recorded
AfterFails(fails, r) == ResultExt(r.e, r.rv, fails \o r.fails, r.ext)

\* recovery_ui on the broken screen after the commit c of the saved reason
BrokenScreenAfter(c, ui) ==
  IF c.rv = VB2_DIE THEN c
  ELSE AfterFails(c.fails, BrokenScreen(c.e, ui, ui.turns, c.ext))

\* Mutant: the broken screen looks for a recovery image like the manual one.
recovery_ui_always_manual(e, g, ui) == InsertScreen(e, ui, ui.turns, << >>)

\* static vb2_error_t recovery_ui(ctx); ui holds the user's turns, what
\* vb2ex_ec_trusted and the commit return, and the build options
recovery_ui(e, g, ui) ==
  IF ~vb2_allow_recovery(e, g, ui.ec_trusted)
    THEN BrokenScreenAfter(
           vb2_commit_data(
             [ e EXCEPT !.nv = [ @ EXCEPT !.recovery_subcode =
                                            e.sd.recovery_reason ] ],
             ui.inner_commit),
           ui)
    ELSE InsertScreen(e, ui, ui.turns, << >>)

\* the turns of a user who, on the broken screen, shuts down or first asks
\* for the diagnostic mode, and who shuts down when no recovery image is
\* found on the disks
ShutdownTurns(in) ==
  (IF in.ui_boot THEN << UiTurn("CTRL_C", TRUE, FALSE, FALSE, in.disks) >>
   ELSE << >>)
    \o << UiTurn("NONE", TRUE, FALSE, TRUE, in.disks) >>

\* vb2_error_t VbBootRecovery(ctx), with the user of ShutdownTurns
VbBootRecovery(e, g, in) ==
  recovery_ui(e, g, [ turns |-> ShutdownTurns(in),
                      ec_trusted |-> in.phase1.ec_trusted,
                      inner_commit |-> in.inner_commit,
                      DIAGNOSTIC_UI |-> in.DIAGNOSTIC_UI,
                      PHYSICAL_PRESENCE_KEYBOARD |-> TRUE,
                      USB_BOOT_ON_DEV |-> FALSE ])

(***************************************************************************)
(* The developer UI: vb2_altfw_ui, vb2_developer_ui, VbBootDeveloper       *)
(***************************************************************************)
\* VB2_ALTFW: not a return value, alternative firmware was started and
\* vb2_try_altfw does not return
VB2_ALTFW == 0 - 3

\* enum vb2_dev_default_boot
VB2_DEV_DEFAULT_BOOT_USB == 1
VB2_DEV_DEFAULT_BOOT_LEGACY == 2

\* vb2_try_altfw(ctx, allowed, altfw_num) called from a UI: without
\* permission it beeps; with it the alternative firmware runs, or fails to
\* start and the UI goes on with r
TryAltfw(allowed, runs, e, ext, r) ==
  IF allowed /\ runs
    THEN ResultExt(e, VB2_ALTFW, << >>, ext \o << "vb2_try_altfw" >>)
    ELSE r

\* the external calls of a vb2_try_altfw that came back
TriedAltfw(allowed, ext) ==
  ext \o (IF allowed THEN << "vb2_try_altfw" >> ELSE << "vb2_error_no_altfw" >>)

\* static vb2_error_t vb2_altfw_ui(ctx): what it returns and the turns it
\* left; done is FALSE when the turns ran out
RECURSIVE vb2_altfw_ui(_, _)
vb2_altfw_ui(turns, runs) ==
  IF turns = << >>
    THEN [ done |-> FALSE, rv |-> VB2_WAITING, rest |-> << >>, tried |-> FALSE ]
  ELSE LET t == Head(turns)
       IN  IF t.shutdown
             THEN [ done |-> TRUE, rv |-> VB2_ERROR("SHUTDOWN_REQUESTED"),
                    rest |-> Tail(turns), tried |-> FALSE ]
           ELSE IF t.key = "ESC"
             THEN [ done |-> TRUE, rv |-> VB2_SUCCESS, rest |-> Tail(turns),
                    tried |-> FALSE ]
           ELSE IF t.key = "DIGIT"
             THEN [ done |-> TRUE,
                    rv |-> IF runs THEN VB2_ALTFW ELSE VB2_SUCCESS,
                    rest |-> Tail(turns), tried |-> TRUE ]
           ELSE vb2_altfw_ui(Tail(turns), runs)

\* the settings vb2_developer_ui computes before its loops
DeveloperOptions(e, g, fwmp) ==
  [ allow_usb |-> \/ e.nv.dev_boot_usb # 0
                  \/ "FORCE_DEV_BOOT_USB" \in g.flags
                  \/ "DEV_ENABLE_USB" \in fwmp,
    allow_legacy |-> \/ e.nv.dev_boot_legacy # 0
                     \/ "FORCE_DEV_BOOT_LEGACY" \in g.flags
                     \/ "DEV_ENABLE_LEGACY" \in fwmp,
    use_usb |-> /\ e.nv.dev_default_boot = VB2_DEV_DEFAULT_BOOT_USB
                /\ "DEFAULT_DEV_BOOT_LEGACY" \notin g.flags,
    use_legacy |-> \/ e.nv.dev_default_boot = VB2_DEV_DEFAULT_BOOT_LEGACY
                   \/ "DEFAULT_DEV_BOOT_LEGACY" \in g.flags,
    disable_dev_boot |-> /\ "DEV_DISABLE_BOOT" \in fwmp
                         /\ "FORCE_DEV_SWITCH_ON" \notin g.flags ]

\* the user confirmed the return to normal mode
ToNormConfirmed(e, ext) ==
  ResultExt([ e EXCEPT !.nv = [ @ EXCEPT !.disable_dev_request = 1 ] ],
            VB2_ERROR("REBOOT_REQUIRED"), << >>, ext)

\* the loop of vb2_developer_ui while developer boot is disabled
RECURSIVE ToNormOnly(_, _, _, _)
ToNormOnly(e, ui, turns, ext) ==
  LET c == VbUserConfirms(turns, {}, ui.PHYSICAL_PRESENCE_KEYBOARD, FALSE)
      ext1 == ext \o << "VbUserConfirms" >>
  IN  IF ~c.done THEN ResultExt(e, VB2_WAITING, << >>, ext1)
      ELSE IF c.answer = 1 THEN ToNormConfirmed(e, ext1)
      ELSE IF c.answer = 0 - 1
        THEN ResultExt(e, VB2_ERROR("SHUTDOWN_REQUESTED"), << >>, ext1)
      ELSE ToNormOnly(e, ui, c.rest, ext1)

\* VbTryLoadKernel for the fixed disk at the end of vb2_developer_ui
FixedDisk(e, ui, ext) ==
  Called(ext \o << "VbTryLoadKernel" >>, VbTryLoadKernel(e, TRUE, ui.fixed))

\* the fallout label of vb2_developer_ui after the default legacy boot:
\* the default USB boot, then the fixed disk
DefaultUsb(e, ui, o, t, ctrl_d, ext) ==
  IF o.use_usb /\ ~ctrl_d /\ o.allow_usb
    THEN IF VbTryLoadKernel(e, FALSE, t.disks).rv = VB2_SUCCESS
           THEN ResultExt(VbTryLoadKernel(e, FALSE, t.disks).e, VB2_SUCCESS,
                          << >>, ext \o << "VbTryLoadKernel" >>)
           ELSE FixedDisk(VbTryLoadKernel(e, FALSE, t.disks).e, ui,
                          ext \o << "VbTryLoadKernel" >>)
    ELSE FixedDisk(e, ui, ext)

\* the fallout label of vb2_developer_ui, reached in turn t by the timeout
\* or by Ctrl+D
Fallout(e, ui, o, t, ctrl_d, ext) ==
  IF o.use_legacy /\ ~ctrl_d
    THEN TryAltfw(o.allow_legacy, ui.altfw_runs, e, ext,
                  DefaultUsb(e, ui, o, t, ctrl_d,
                             TriedAltfw(o.allow_legacy, ext)))
    ELSE DefaultUsb(e, ui, o, t, ctrl_d, ext)

\* the loop of vb2_developer_ui on the developer warning screen; the turn
\* with the key TIMEOUT is the one after which vb2_audio_looping ends the
\* countdown
RECURSIVE WarningScreen(_, _, _, _, _, _)
WarningScreen(e, g, ui, o, turns, ext) ==
  IF turns = << >> THEN ResultExt(e, VB2_WAITING, << >>, ext)
  ELSE LET t == Head(turns)
           rest == Tail(turns)
           c == VbUserConfirms(rest, {}, ui.PHYSICAL_PRESENCE_KEYBOARD, FALSE)
           a == vb2_altfw_ui(rest, ui.altfw_runs)
           u == VbTryLoadKernel(e, FALSE, t.disks)
       IN  IF t.shutdown
             THEN ResultExt(e, VB2_ERROR("SHUTDOWN_REQUESTED"), << >>, ext)
           ELSE IF t.key = "SPACE"
                   \/ (t.key = "ENTER" /\ "ENTER_TRIGGERS_TONORM" \in g.flags)
             THEN \* VB2_ASSERT(sd->flags & VB2_SD_FLAG_DEV_MODE_ENABLED)
                  IF "DEV_MODE_ENABLED" \notin e.sd.flags
                    THEN ResultExt(e, VB2_DIE, << >>, ext)
                  ELSE IF "FORCE_DEV_SWITCH_ON" \in g.flags
                    THEN WarningScreen(e, g, ui, o, rest, ext)
                  ELSE IF ~c.done
                    THEN ResultExt(e, VB2_WAITING, << >>,
                                   ext \o << "VbUserConfirms" >>)
                  ELSE IF c.answer = 1
                    THEN ToNormConfirmed(e, ext \o << "VbUserConfirms" >>)
                  ELSE IF c.answer = 0 - 1
                    THEN ResultExt(e, VB2_ERROR("SHUTDOWN_REQUESTED"), << >>,
                                   ext \o << "VbUserConfirms" >>)
                  ELSE WarningScreen(e, g, ui, o, c.rest,
                                     ext \o << "VbUserConfirms" >>)
           ELSE IF t.key = "CTRL_D" THEN Fallout(e, ui, o, t, TRUE, ext)
           ELSE IF t.key = "CTRL_L"
             THEN IF ~o.allow_legacy
                    THEN WarningScreen(e, g, ui, o, rest,
                                       ext \o << "vb2_error_no_altfw" >>)
                  ELSE IF ~a.done \/ a.rv # VB2_SUCCESS
                    THEN ResultExt(e, a.rv, << >>,
                                   ext \o << "vb2_altfw_ui" >>
                                       \o (IF a.tried THEN << "vb2_try_altfw" >>
                                           ELSE << >>))
                  ELSE WarningScreen(e, g, ui, o, a.rest,
                                     ext \o << "vb2_altfw_ui" >>
                                         \o (IF a.tried THEN << "vb2_try_altfw" >>
                                             ELSE << >>))
           ELSE IF t.key \in { "CTRL_U", "CTRL_ENTER" }
             THEN IF ~o.allow_usb
                    THEN WarningScreen(e, g, ui, o, rest, ext)
                  ELSE IF u.rv = VB2_SUCCESS
                    THEN ResultExt(u.e, VB2_SUCCESS, << >>,
                                   ext \o << "VbTryLoadKernel" >>)
                  ELSE WarningScreen(u.e, g, ui, o, rest,
                                     ext \o << "VbTryLoadKernel" >>)
           ELSE IF t.key = "DIGIT"
             THEN TryAltfw(o.allow_legacy, ui.altfw_runs, e, ext,
                           WarningScreen(e, g, ui, o, rest,
                                         TriedAltfw(o.allow_legacy, ext)))
           ELSE IF t.key = "TIMEOUT" THEN Fallout(e, ui, o, t, FALSE, ext)
           ELSE WarningScreen(e, g, ui, o, rest, ext)

\* Mutant: the FWMP flag DEV_DISABLE_BOOT is not looked at.
vb2_developer_ui_no_lockout(e, g, ui) ==
  WarningScreen(e, g, ui, DeveloperOptions(e, g, ui.fwmp), ui.turns, << >>)

\* static vb2_error_t vb2_developer_ui(ctx); ui holds the user's turns, the
\* FWMP flags, the fixed disks, whether alternative firmware starts, and
\* the build option (VENDOR_DATA_LENGTH is 0)
vb2_developer_ui(e, g, ui) ==
  IF DeveloperOptions(e, g, ui.fwmp).disable_dev_boot
    THEN ToNormOnly(e, ui, ui.turns, << >>)
    ELSE WarningScreen(e, g, ui, DeveloperOptions(e, g, ui.fwmp), ui.turns,
                       << >>)

\* the turns of a user who shuts down, or who presses Ctrl+D
DeveloperTurns(in) ==
  IF in.ui_boot THEN << UiTurn("CTRL_D", TRUE, FALSE, FALSE, << >>) >>
  ELSE << UiTurn("NONE", TRUE, FALSE, TRUE, << >>) >>

\* vb2_error_t VbBootDeveloper(ctx), with the user of DeveloperTurns and no
\* FWMP flags
VbBootDeveloper(e, g, in) ==
  vb2_developer_ui(e, g, [ turns |-> DeveloperTurns(in),
                           fwmp |-> {},
                           fixed |-> in.disks,
                           altfw_runs |-> FALSE,
                           PHYSICAL_PRESENCE_KEYBOARD |-> TRUE ])

(***************************************************************************)
(* The diagnostic UI: vb2_diagnostics_ui, VbBootDiagnostic                 *)
(***************************************************************************)
\* how the loop of vb2_diagnostics_ui ended
DiagnosticsEnd(done, confirmed, result) ==
  [ done |-> done, action_confirmed |-> confirmed, result |-> result ]

\* Mutant: a press of the power button counts without a release before it.
RECURSIVE DiagnosticsLoop_any_press(_, _, _)
DiagnosticsLoop_any_press(turns, released, pressed) ==
  IF turns = << >>
    THEN DiagnosticsEnd(FALSE, FALSE, VB2_WAITING)
  ELSE LET t == Head(turns)
       IN  IF ~t.presence /\ pressed
             THEN DiagnosticsEnd(TRUE, TRUE, VB2_ERROR("REBOOT_REQUIRED"))
           ELSE IF t.shutdown
             THEN DiagnosticsEnd(TRUE, FALSE, VB2_ERROR("SHUTDOWN_REQUESTED"))
           ELSE IF t.key \in { "ESC", "TIMEOUT" }
             THEN DiagnosticsEnd(TRUE, FALSE, VB2_ERROR("REBOOT_REQUIRED"))
           ELSE DiagnosticsLoop_any_press(Tail(turns),
                                          released \/ ~t.presence,
                                          pressed \/ t.presence)

\* the loop of vb2_diagnostics_ui; released and pressed are
\* power_button_was_released and power_button_was_pressed, a turn's presence
\* is the power button, its shutdown the lid, and the turn with the key
\* TIMEOUT is the one in which the 30 seconds are over
RECURSIVE DiagnosticsLoop(_, _, _)
DiagnosticsLoop(turns, released, pressed) ==
  IF turns = << >>
    THEN DiagnosticsEnd(FALSE, FALSE, VB2_WAITING)
  ELSE LET t == Head(turns)
       IN  IF ~t.presence /\ pressed
             THEN DiagnosticsEnd(TRUE, TRUE, VB2_ERROR("REBOOT_REQUIRED"))
           ELSE IF t.shutdown
             THEN DiagnosticsEnd(TRUE, FALSE, VB2_ERROR("SHUTDOWN_REQUESTED"))
           ELSE IF t.key \in { "ESC", "TIMEOUT" }
             THEN DiagnosticsEnd(TRUE, FALSE, VB2_ERROR("REBOOT_REQUIRED"))
           ELSE DiagnosticsLoop(Tail(turns),
                                released \/ ~t.presence,
                                pressed \/ (t.presence /\ released))

\* vb2_diagnostics_ui after its loop ended with d
DiagnosticsAction(e, ui, d) ==
  IF ~d.action_confirmed THEN ResultExt(e, d.result, << >>, << >>)
  ELSE IF ui.tpm_set_mode # VB2_SUCCESS
    THEN ResultExt(vb2api_fail(e, VB2_RECOVERY("TPM_DISABLE_FAILED"), 0),
                   d.result,
                   << << VB2_RECOVERY("TPM_DISABLE_FAILED"), 0 >> >>,
                   << "vb2ex_tpm_set_mode" >>)
  ELSE IF ui.altfw_runs
    THEN ResultExt(e, VB2_ALTFW, << >>,
                   << "vb2ex_tpm_set_mode", "vb2_try_altfw" >>)
  ELSE ResultExt(vb2api_fail(e, VB2_RECOVERY("ALTFW_HASH_FAILED"), 0),
                 d.result,
                 << << VB2_RECOVERY("ALTFW_HASH_FAILED"), 0 >> >>,
                 << "vb2ex_tpm_set_mode", "vb2_try_altfw" >>)

\* vb2_error_t vb2_diagnostics_ui(ctx); ui holds the user's turns, the
\* result of vb2ex_tpm_set_mode and whether the diagnostic firmware starts
vb2_diagnostics_ui(e, ui) ==
  DiagnosticsAction(e, ui, DiagnosticsLoop(ui.turns, FALSE, FALSE))

\* the turns of a user who closes the lid, or who lets go of the power
\* button, presses it and lets go again
DiagnosticTurns(in) ==
  IF in.ui_boot
    THEN << UiTurn("NONE", TRUE, FALSE, FALSE, << >>),
            UiTurn("NONE", TRUE, TRUE, FALSE, << >>),
            UiTurn("NONE", TRUE, FALSE, FALSE, << >>) >>
    ELSE << UiTurn("NONE", TRUE, FALSE, TRUE, << >>) >>

\* vb2_error_t VbBootDiagnostic(ctx), with the user of DiagnosticTurns, a
\* TPM that can be disabled and diagnostic firmware that fails to start
VbBootDiagnostic(e, in) ==
  vb2_diagnostics_ui(e, [ turns |-> DiagnosticTurns(in),
                          tpm_set_mode |-> VB2_SUCCESS,
                          altfw_runs |-> FALSE ])

\* the diagnostic path must not return success
DiagnosticDone(r) ==
  IF r.rv = VB2_SUCCESS THEN Turned(VB2_ERROR("REBOOT_REQUIRED"), r) ELSE r

\* the NV requests VbSelectAndLoadKernel clears before a boot path
ClearRecoveryRequest(e) ==
  [ e EXCEPT !.nv = [ @ EXCEPT !.recovery_request = VB2_RECOVERY_NOT_REQUESTED,
                               !.recovery_subcode = VB2_RECOVERY_NOT_REQUESTED ] ]
ClearDiagRequest(e) == [ e EXCEPT !.nv = [ @ EXCEPT !.diag_request = 0 ] ]

\* Mutant: the diagnostic request is cleared after the diagnostic UI.
DiagnosticPath_clear_after(e, ui) ==
  LET r == DiagnosticDone(vb2_diagnostics_ui(e, ui))
  IN  IF r.rv \in { VB2_WAITING, VB2_ALTFW } THEN r
      ELSE ResultExt(ClearDiagRequest(r.e), r.rv, r.fails, r.ext)

\* the diagnostic branch of VbSelectAndLoadKernel with the UI input ui
DiagnosticPath(e, ui) ==
  DiagnosticDone(vb2_diagnostics_ui(ClearDiagRequest(e), ui))

\* Mutant: developer mode is looked at before the diagnostic request.
SelectBootPath_developer_first(e, g, in) ==
  IF "RECOVERY_MODE" \in e.flags
    THEN IF e.sd.recovery_reason = VB2_RECOVERY("TRAIN_AND_REBOOT")
           THEN ResultExt(ClearRecoveryRequest(e), VB2_ERROR("REBOOT_REQUIRED"),
                          << >>, << >>)
           ELSE Called(<< "VbBootRecovery" >>,
                       VbBootRecovery(ClearRecoveryRequest(e), g, in))
  ELSE IF "DEVELOPER_MODE" \in e.flags
    THEN Called(<< "VbBootDeveloper" >>, VbBootDeveloper(e, g, in))
  ELSE IF in.DIAGNOSTIC_UI /\ e.nv.diag_request # 0
    THEN Called(<< "VbBootDiagnostic" >>,
                DiagnosticDone(VbBootDiagnostic(ClearDiagRequest(e), in)))
  ELSE Called(<< "VbBootNormal" >>, VbBootNormal(e, in.disks))

\* the recovery request of result r is cleared
Cleared(r) == ResultExt(ClearRecoveryRequest(r.e), r.rv, r.fails, r.ext)

\* Mutant: the recovery request is cleared after the recovery path ran.
SelectBootPath_clear_after(e, g, in) ==
  IF "RECOVERY_MODE" \in e.flags
    THEN IF e.sd.recovery_reason = VB2_RECOVERY("TRAIN_AND_REBOOT")
           THEN ResultExt(ClearRecoveryRequest(e), VB2_ERROR("REBOOT_REQUIRED"),
                          << >>, << >>)
           ELSE Called(<< "VbBootRecovery" >>,
                       Cleared(VbBootRecovery(e, g, in)))
  ELSE IF in.DIAGNOSTIC_UI /\ e.nv.diag_request # 0
    THEN Called(<< "VbBootDiagnostic" >>,
                DiagnosticDone(VbBootDiagnostic(ClearDiagRequest(e), in)))
  ELSE IF "DEVELOPER_MODE" \in e.flags
    THEN Called(<< "VbBootDeveloper" >>, VbBootDeveloper(e, g, in))
  ELSE Called(<< "VbBootNormal" >>, VbBootNormal(e, in.disks))

\* VbSelectAndLoadKernel from the boot path selection to the exit label
SelectBootPath(e, g, in) ==
  IF "RECOVERY_MODE" \in e.flags
    THEN IF e.sd.recovery_reason = VB2_RECOVERY("TRAIN_AND_REBOOT")
           THEN ResultExt(ClearRecoveryRequest(e), VB2_ERROR("REBOOT_REQUIRED"),
                          << >>, << >>)
           ELSE Called(<< "VbBootRecovery" >>,
                       VbBootRecovery(ClearRecoveryRequest(e), g, in))
  ELSE IF in.DIAGNOSTIC_UI /\ e.nv.diag_request # 0
    THEN Called(<< "VbBootDiagnostic" >>,
                DiagnosticDone(VbBootDiagnostic(ClearDiagRequest(e), in)))
  ELSE IF "DEVELOPER_MODE" \in e.flags
    THEN Called(<< "VbBootDeveloper" >>, VbBootDeveloper(e, g, in))
  ELSE Called(<< "VbBootNormal" >>, VbBootNormal(e, in.disks))

\* VbSelectAndLoadKernel after the battery cut-off check bc
AfterBatteryCutoff(bc, g, in) ==
  IF bc.rv # VB2_SUCCESS THEN bc ELSE SelectBootPath(bc.e, g, in)

\* VbSelectAndLoadKernel after vb2api_kernel_phase1 returned p1, up to the
\* exit label: the sync steps are skipped in recovery mode
AfterPhase1(p1, g, in) ==
  IF p1.rv # VB2_SUCCESS THEN Called(<< >>, p1)
  ELSE IF "RECOVERY_MODE" \in p1.e.flags THEN SelectBootPath(p1.e, g, in)
  ELSE IF in.sync = "ec_sync"
    THEN ResultExt(p1.e, VB2_ERROR("EC_REBOOT_TO_RO_REQUIRED"), << >>,
                   << "vb2api_ec_sync" >>)
  ELSE IF in.sync = "auxfw_sync"
    THEN ResultExt(p1.e, VB2_ERROR("REBOOT_REQUIRED"), << >>,
                   << "vb2api_ec_sync", "vb2api_auxfw_sync" >>)
  ELSE Called(<< "vb2api_ec_sync", "vb2api_auxfw_sync" >>,
              AfterBatteryCutoff(handle_battery_cutoff(p1.e, in.inner_commit),
                                 g, in))

\* the exit label of VbSelectAndLoadKernel: r is the result so far, c that
\* of the commit; an earlier error is kept
ExitCommitted(r, c) ==
  ResultExt(c.e,
            IF c.rv = VB2_DIE THEN VB2_DIE
            ELSE IF r.rv = VB2_SUCCESS THEN c.rv ELSE r.rv,
            r.fails \o c.fails, r.ext \o c.ext)

\* static void vb2_kernel_fill_kparams(ctx, kparams), which the exit label
\* calls when the result so far is success
FillKparams(r) ==
  IF r.rv = VB2_SUCCESS
    THEN ResultExt(r.e, r.rv, r.fails, r.ext \o << "vb2_kernel_fill_kparams" >>)
    ELSE r

\* Mutant: an error before the exit label returns without the commit.
SelectAndLoadKernel_exit_error_returns(r, first) ==
  IF r.rv # VB2_SUCCESS THEN r
  ELSE ExitCommitted(FillKparams(r), vb2_commit_data(r.e, first))

\* Mutant: the output parameters are filled in when the commit succeeded.
SelectAndLoadKernel_exit_fill_last(r, first) ==
  IF r.rv = VB2_DIE THEN r
  ELSE FillKparams(ExitCommitted(r, vb2_commit_data(r.e, first)))

\* the exit label of VbSelectAndLoadKernel after the result r; a halt
\* inside the call never comes here
SelectAndLoadKernel_exit(r, first) ==
  IF r.rv = VB2_DIE THEN r
  ELSE ExitCommitted(FillKparams(r), vb2_commit_data(r.e, first))

\* vb2_error_t VbSelectAndLoadKernel(ctx, shared, kparams)
VbSelectAndLoadKernel(e, g, in) ==
  SelectAndLoadKernel_exit(
    AfterPhase1(vb2api_kernel_phase1(vb2_kernel_setup(e), g, in.phase1), g, in),
    in.commit)

(***************************************************************************)
(* Developer switch: vb2_check_dev_switch, vb2_enable_developer_mode       *)
(***************************************************************************)
\* the secdata flags of this boot: the stored flags f after the disable
\* request, the caller's DISABLE_DEVELOPER_MODE and the mode dev of the boot
DevSwitchFlags(f, disable, dev) ==
  LET f1 == IF disable THEN f \ {"DEV_MODE"} ELSE f
  IN  IF dev THEN f1 \cup {"LAST_BOOT_DEVELOPER"}
      ELSE f1 \ {"LAST_BOOT_DEVELOPER"}

\* the context, the shared data and NV after the mode was decided
DevSwitchMode(e, request, dev) ==
  LET nv1 == IF request THEN [ e.nv EXCEPT !.disable_dev_request = 0 ]
             ELSE e.nv
      nv2 == IF dev THEN nv1
             ELSE [ nv1 EXCEPT !.dev_boot_usb = 0,
                               !.dev_boot_legacy = 0,
                               !.dev_boot_signed_only = 0,
                               !.dev_default_boot = 0 ]
      nv3 == IF "FORCE_WIPEOUT_MODE" \in e.flags
               THEN [ nv2 EXCEPT !.req_wipeout = 1 ]
               ELSE nv2
  IN  [ e EXCEPT
          !.nv = nv3,
          !.sd = IF dev THEN [ @ EXCEPT !.flags = @ \cup {"DEV_MODE_ENABLED"} ]
                 ELSE @,
          !.flags = IF dev THEN @ \cup {"DEVELOPER_MODE"} ELSE @ ]

\* Mutant: the new flags are saved before the TPM owner is cleared.
DevSwitchTransition_save_first(e1, valid, f, in) ==
  IF valid /\ in.clear = "fail"
    THEN ResultExt(vb2api_fail(SecdataFirmwareSetFlags(e1, f),
                               VB2_RECOVERY("TPM_CLEAR_OWNER"),
                               U8(VB2_ERROR("EX_TPM_CLEAR_OWNER"))),
                   VB2_ERROR("EX_TPM_CLEAR_OWNER"),
                   << << VB2_RECOVERY("TPM_CLEAR_OWNER"),
                         U8(VB2_ERROR("EX_TPM_CLEAR_OWNER")) >> >>,
                   << "vb2_secdata_firmware_set", "vb2ex_tpm_clear_owner" >>)
    ELSE ResultExt(SecdataFirmwareSetFlags(e1, f), VB2_SUCCESS, << >>,
                   << "vb2_secdata_firmware_set", "vb2ex_tpm_clear_owner" >>)

\* the dev mode state changed: clear the TPM owner, then save the new
\* flags f; in.clear is what vb2ex_tpm_clear_owner returns
DevSwitchTransition(e1, valid, f, in) ==
  IF valid /\ in.clear = "fail"
    THEN ResultExt(vb2api_fail(e1, VB2_RECOVERY("TPM_CLEAR_OWNER"),
                               U8(VB2_ERROR("EX_TPM_CLEAR_OWNER"))),
                   VB2_ERROR("EX_TPM_CLEAR_OWNER"),
                   << << VB2_RECOVERY("TPM_CLEAR_OWNER"),
                         U8(VB2_ERROR("EX_TPM_CLEAR_OWNER")) >> >>,
                   << "vb2ex_tpm_clear_owner" >>)
    ELSE ResultExt(SecdataFirmwareSetFlags(e1, f), VB2_SUCCESS, << >>,
                   << "vb2ex_tpm_clear_owner", "vb2_secdata_firmware_set" >>)

\* Mutant: the caller's DISABLE_DEVELOPER_MODE is not consulted.
vb2_check_dev_switch_caller_ignored(e, g, in) ==
  LET valid == "SECDATA_FIRMWARE_INIT" \in e.sd.status
      old_flags == SecdataFirmwareFlags(e)
      request == valid /\ e.nv.disable_dev_request # 0
      is_dev == \/ "DEV_MODE" \in DevSwitchFlags(old_flags, request, FALSE)
                \/ "FORCE_DEV_SWITCH_ON" \in g.flags
      new_flags == DevSwitchFlags(old_flags, request, is_dev)
      e1 == DevSwitchMode(e, request, is_dev)
  IN  IF ~valid /\ VB2_REC_OR_DIE(e)
        THEN ResultExt(e, VB2_DIE, << >>, << >>)
      ELSE IF new_flags # old_flags
        THEN DevSwitchTransition(e1, valid, new_flags, in)
      ELSE ResultExt(e1, VB2_SUCCESS, << >>, << >>)

\* vb2_error_t vb2_check_dev_switch(ctx) with GBB header g
vb2_check_dev_switch(e, g, in) ==
  LET valid == "SECDATA_FIRMWARE_INIT" \in e.sd.status
      old_flags == SecdataFirmwareFlags(e)
      \* the disable request is honoured with valid secdata only
      request == valid /\ e.nv.disable_dev_request # 0
      disable == request \/ "DISABLE_DEVELOPER_MODE" \in e.flags
      is_dev == \/ "DEV_MODE" \in DevSwitchFlags(old_flags, disable, FALSE)
                \/ "FORCE_DEV_SWITCH_ON" \in g.flags
      new_flags == DevSwitchFlags(old_flags, disable, is_dev)
      e1 == DevSwitchMode(e, request, is_dev)
  IN  IF ~valid /\ VB2_REC_OR_DIE(e)
        THEN ResultExt(e, VB2_DIE, << >>, << >>)
      ELSE IF new_flags # old_flags
        THEN DevSwitchTransition(e1, valid, new_flags, in)
      ELSE ResultExt(e1, VB2_SUCCESS, << >>, << >>)

\* Mutant: the request is cleared only after a successful clear.
vb2_check_tpm_clear_request_kept(e, in) ==
  IF e.nv.clear_tpm_owner_request = 0
    THEN ResultExt(e, VB2_SUCCESS, << >>, << >>)
  ELSE IF in.clear = "fail"
    THEN ResultExt(vb2api_fail(e, VB2_RECOVERY("TPM_CLEAR_OWNER"),
                               U8(VB2_ERROR("EX_TPM_CLEAR_OWNER"))),
                   VB2_ERROR("EX_TPM_CLEAR_OWNER"),
                   << << VB2_RECOVERY("TPM_CLEAR_OWNER"),
                         U8(VB2_ERROR("EX_TPM_CLEAR_OWNER")) >> >>,
                   << "vb2ex_tpm_clear_owner" >>)
  ELSE ResultExt([ e EXCEPT !.nv = [ @ EXCEPT !.clear_tpm_owner_request = 0,
                                              !.clear_tpm_owner_done = 1 ] ],
                 VB2_SUCCESS, << >>, << "vb2ex_tpm_clear_owner" >>)

\* vb2_error_t vb2_check_tpm_clear(ctx); in.clear is what
\* vb2ex_tpm_clear_owner returns
vb2_check_tpm_clear(e, in) ==
  LET e1 == [ e EXCEPT !.nv = [ @ EXCEPT !.clear_tpm_owner_request = 0 ] ]
  IN  IF e.nv.clear_tpm_owner_request = 0
        THEN ResultExt(e, VB2_SUCCESS, << >>, << >>)
      ELSE IF in.clear = "fail"
        THEN ResultExt(vb2api_fail(e1, VB2_RECOVERY("TPM_CLEAR_OWNER"),
                                   U8(VB2_ERROR("EX_TPM_CLEAR_OWNER"))),
                       VB2_ERROR("EX_TPM_CLEAR_OWNER"),
                       << << VB2_RECOVERY("TPM_CLEAR_OWNER"),
                             U8(VB2_ERROR("EX_TPM_CLEAR_OWNER")) >> >>,
                       << "vb2ex_tpm_clear_owner" >>)
      ELSE ResultExt([ e1 EXCEPT !.nv = [ @ EXCEPT !.clear_tpm_owner_done = 1 ] ],
                     VB2_SUCCESS, << >>, << "vb2ex_tpm_clear_owner" >>)

(***************************************************************************)
(* Construction and the boot flow                                          *)
(***************************************************************************)
\* struct vb2_shared_data after vb2api_init and firmware phase 1: NV and
\* secdata_firmware are initialised, the firmware version counter has been
\* read into sd->fw_version_secdata, nothing has been verified yet.
SdAtBoot(sec) ==
  [ status |-> {"NV_INIT", "SECDATA_FIRMWARE_INIT"},
    flags |-> {},
    recovery_reason |-> 0,
    fw_slot |-> 0,
    last_fw_slot |-> 0,
    last_fw_result |-> "UNKNOWN",
    fw_version |-> 0,
    fw_version_secdata |-> sec.fw_versions,
    kernel_version |-> 0,
    kernel_version_secdata |-> 0,
    vblock_preamble_offset |-> 0,
    data_key_offset |-> 0,
    data_key_size |-> 0,
    preamble_offset |-> 0,
    preamble_size |-> 0,
    kernel_key_offset |-> "none",
    kernel_key_size |-> 0,
    workbuf_used |-> WorkbufUsedAtBoot,
    workbuf_size |-> WorkbufSize ]

\* VbSharedDataHeader, zeroed by the caller before the kernel stage
SharedAtBoot == [ kernel_version_tpm |-> 0, kernel_version_tpm_start |-> 0 ]

\* NV storage with the fields the modelled code reads or writes
NvOf(req, sub, count, next, tried, result) ==
  [ recovery_request |-> req,
    recovery_subcode |-> sub,
    try_count |-> count,
    try_next |-> next,
    fw_tried |-> tried,
    fw_result |-> result,
    fw_prev_tried |-> 0,
    fw_prev_result |-> "UNKNOWN",
    kernel_max_rollforward |-> 0,
    display_request |-> 0,
    diag_request |-> 0,
    battery_cutoff_request |-> 0,
    disable_dev_request |-> 0,
    dev_boot_usb |-> 0,
    dev_boot_legacy |-> 0,
    dev_default_boot |-> 0,
    clear_tpm_owner_request |-> 0,
    clear_tpm_owner_done |-> 0 ]

\* Context flags the caller may pass in at the start of a boot
CallerFlags == { {}, {"NOFAIL_BOOT"} }

\* GBB header with the given flags
GbbOf(f) ==
  [ flags |-> f, rootkey_size |-> RootKeySize,
    recovery_key_size |-> RootKeySize ]

\* Reasons and subcodes callers hand to vb2api_fail
FailReasons == { VB2_RECOVERY("RO_UNSPECIFIED"), VB2_RECOVERY("FW_PREAMBLE") }
FailSubcodes == { 0, 7 }

\* First boot of the slot-selection specification: NV as the previous boot
\* and the operating system left it.
InitSlot ==
  /\ nv \in { NvOf(req, sub, count, next, tried, result) :
                req \in {0, VB2_RECOVERY("FW_KEYBLOCK")},
                sub \in {0, 3},
                count \in 0..MaxTryCount,
                next \in {0, 1},
                tried \in {0, 1},
                result \in FwResults }
  /\ secdata = [ fw_versions |-> 0, kernel_versions |-> 0 ]
  /\ gbb = GbbOf({})
  /\ sd = SdAtBoot(secdata)
  /\ flags \in CallerFlags
  /\ shared = SharedAtBoot
  /\ pc = "phase1"
  /\ boots = 0
  /\ call = NoCall
  /\ old = Engine

\* Power cycle: NV and secure storage persist, vb2api_init and firmware
\* phase 1 rebuild the shared data and the context flags.
PowerCycle ==
  /\ boots < MaxBoots
  /\ boots' = boots + 1
  /\ pc' = "phase1"
  /\ \E f \in CallerFlags :
       Return([ Engine EXCEPT !.sd = SdAtBoot(secdata),
                              !.flags = f,
                              !.shared = SharedAtBoot ],
              "boot", << >>, VB2_SUCCESS, << >>)
  /\ UNCHANGED gbb

\* Firmware phase 2 calls vb2_select_fw_slot once per boot.
SelectFwSlot ==
  /\ pc = "phase1"
  /\ pc' = "phase2"
  /\ Return(vb2_select_fw_slot(Engine), "select_fw_slot", << >>,
            VB2_SUCCESS, << >>)
  /\ UNCHANGED << gbb, boots >>

\* A caller of the engine reports a failure (vb2api_fail is a public API).
ApiFail ==
  /\ \E reason \in FailReasons, subcode \in FailSubcodes :
       Return(vb2api_fail(Engine, reason, subcode), "fail",
              << reason, subcode >>, VB2_SUCCESS, << << reason, subcode >> >>)
  /\ UNCHANGED << gbb, pc, boots >>

NextSlot == PowerCycle \/ SelectFwSlot \/ ApiFail

\* Slot selection and failure handling over successive boots
SpecSlot == InitSlot /\ [][NextSlot]_vars

(***************************************************************************)
(* Firmware verification and the kernel stage over successive boots        *)
(***************************************************************************)
\* Bounds of the verified-boot specification
MaxDisks == 2
MaxKernelVersion == 3

\* versions found in keyblocks, preambles and kernels, and stored at first
KeyVersions == { 1, 2, 3, 65536 }
FirmwareVersions == { 1, 2, 3, 65536, 131072 }
FwVersionsStored == { Shl16(2) + 2 }
KernelVersions == 1..MaxKernelVersion
KernelVersionsStored == { 1 }
\* kernel_max_rollforward is a uint32_t compared with uint32_t versions; its
\* NV default 0xffffffff, above every version, is MaxKernelVersion + 1 here
MaxRollforwards == { 0, 2, MaxKernelVersion + 1 }

KeyblockFaults ==
  { "none", "read_rootkey", "unpack_rootkey", "read_kb_header", "read_kb",
    "verify" }
\* keyblocks of every version that can be read, and one for each failing
\* external call
Keyblocks ==
  { kb \in [ fault : KeyblockFaults, key_version : KeyVersions,
             data_key_inside : BOOLEAN, keyblock_size : { KeyblockSize },
             data_key_size : { DataKeySize } ] :
      kb.fault \in { "none", "verify" }
        \/ (kb.key_version = 2 /\ kb.data_key_inside) }

PreambleFaults ==
  { "none", "unpack_data_key", "read_pre_header", "read_pre", "verify" }
Preambles ==
  { pre \in [ fault : PreambleFaults, firmware_version : FirmwareVersions,
              preamble_size : { PreambleSize } ] :
      pre.fault \in { "none", "verify" } \/ pre.firmware_version = 2 }

Phase1Inputs ==
  [ fault : { "none", "secdata_kernel_init", "secdata_fwmp_init",
              "read_recovery_key" },
    ec_trusted : BOOLEAN, key_size : { 40 } ]

\* what one disk does to VbTryLoadKernel: it is skipped by the sanity
\* check, or LoadKernel fails on it with rv, or LoadKernel succeeds and
\* leaves kver in shared->kernel_version_tpm
Disks ==
  { [ usable |-> FALSE, rv |-> VB2_ERROR("DISK_READ"), kver |-> 0 ] }
  \cup [ usable : { TRUE },
         rv : { VB2_ERROR("LK_NO_KERNEL_FOUND"),
                VB2_ERROR("LK_INVALID_KERNEL_FOUND"), VB2_ERROR("DISK_READ") },
         kver : { 0 } ]
  \cup [ usable : { TRUE }, rv : { VB2_SUCCESS }, kver : KernelVersions ]
DiskLists == UNION { [ 1..n -> Disks ] : n \in 0..MaxDisks }

\* First boot of the firmware verification specification
InitFw ==
  /\ nv \in { NvOf(0, 0, count, tried, tried, result) :
                count \in {0, 1}, tried \in {0, 1}, result \in FwResults }
  /\ secdata \in [ fw_versions : FwVersionsStored, kernel_versions : {1} ]
  /\ gbb \in { GbbOf({}), GbbOf({"DISABLE_FW_ROLLBACK_CHECK"}) }
  /\ sd = SdAtBoot(secdata)
  /\ flags \in CallerFlags
  /\ shared = SharedAtBoot
  /\ pc = "phase1"
  /\ boots = 0
  /\ call = NoCall
  /\ old = Engine

\* a firmware vblock that verifies, with the versions in secure storage
GoodKeyblock(sec) ==
  [ fault |-> "none", key_version |-> Shr16(sec.fw_versions),
    data_key_inside |-> TRUE, keyblock_size |-> KeyblockSize,
    data_key_size |-> DataKeySize ]
GoodPreamble(sec) ==
  [ fault |-> "none", firmware_version |-> sec.fw_versions % 65536,
    preamble_size |-> PreambleSize ]

\* the engine after firmware phases 2 and 3 verified such a vblock
FwVerified(e, g) ==
  LET e1 == vb2_select_fw_slot(e)
      e2 == vb2_load_fw_keyblock(e1, g, GoodKeyblock(e.secdata)).e
  IN  vb2_load_fw_preamble(e2, g, GoodPreamble(e.secdata)).e

\* The kernel stage of one boot: the firmware stage is over, with or
\* without a verified firmware preamble in the work buffer; fs are the
\* context flags the firmware stage can have left, manual whether a recovery
\* boot can be a manual one (vb2_check_recovery then set MANUAL_RECOVERY).
KernelStartFrom(fs, manual) ==
  /\ gbb = GbbOf({})
  /\ boots = 0
  /\ pc = "preamble"
  /\ call = NoCall
  /\ \E n \in { [ NvOf(0, 0, count, 0, 0, "SUCCESS")
                    EXCEPT !.kernel_max_rollforward = mrf,
                           !.display_request = disp ] :
                  count \in {0, 1},
                  mrf \in MaxRollforwards, disp \in {0, 1} },
        sec \in [ fw_versions : FwVersionsStored,
                  kernel_versions : KernelVersionsStored ],
        f \in fs,
        verified \in BOOLEAN,
        m \in manual :
       LET s0 == SdAtBoot(sec)
           e0 == [ nv |-> n,
                   sd |-> IF m /\ "RECOVERY_MODE" \in f
                            THEN [ s0 EXCEPT !.flags = @ \cup {"MANUAL_RECOVERY"} ]
                            ELSE s0,
                   flags |-> f, secdata |-> sec, shared |-> SharedAtBoot ]
           e1 == IF verified THEN FwVerified(e0, gbb) ELSE e0
       IN  /\ nv = e1.nv
           /\ sd = e1.sd
           /\ flags = e1.flags
           /\ secdata = e1.secdata
           /\ shared = e1.shared
           /\ old = e1

\* the kernel stage of a boot that did not enter manual recovery
KernelStart(fs) == KernelStartFrom(fs, { FALSE })

\* The normal boot path is entered outside recovery mode only.
InitKernel == KernelStart({ {}, {"ALLOW_KERNEL_ROLL_FORWARD"} })

\* The kernel verification API is also used in recovery mode.
InitKernelApi ==
  KernelStartFrom(SUBSET {"RECOVERY_MODE", "ALLOW_KERNEL_ROLL_FORWARD"}, BOOLEAN)

\* The engine state and the call record become those of result r.
Returns(r, op, in) == Return(r.e, op, in, r.rv, r.fails)

\* Firmware phase 3, first half
LoadFwKeyblock ==
  /\ pc \in { "phase1", "phase2" }
  /\ pc' = "keyblock"
  /\ \E kb \in Keyblocks :
       Returns(vb2_load_fw_keyblock(Engine, gbb, kb), "load_fw_keyblock", kb)
  /\ UNCHANGED << gbb, boots >>

\* Firmware phase 3, second half
LoadFwPreamble ==
  /\ pc \in { "phase1", "phase2", "keyblock" }
  /\ pc' = "preamble"
  /\ \E pre \in Preambles :
       Returns(vb2_load_fw_preamble(Engine, gbb, pre), "load_fw_preamble", pre)
  /\ UNCHANGED << gbb, boots >>

\* The kernel stage starts; it goes on only when phase 1 succeeded.
KernelPhase1 ==
  /\ pc \in { "phase1", "phase2", "keyblock", "preamble" }
  /\ \E in \in Phase1Inputs :
       LET r == vb2api_kernel_phase1(Engine, gbb, in)
       IN  /\ Returns(r, "kernel_phase1", in)
           /\ pc' = IF r.rv = VB2_SUCCESS THEN "kernel" ELSE "stopped"
  /\ UNCHANGED << gbb, boots >>

\* vb2api_load_kernel_vblock verified a kernel keyblock and preamble: it
\* records the kernel's version and whether the keyblock was signed.
LoadKernelVblock ==
  /\ pc = "kernel"
  /\ \E kver \in KernelVersions, signed \in BOOLEAN :
       LET s1 == [ sd EXCEPT
                     !.kernel_version = kver,
                     !.flags = IF signed THEN @ \cup {"KERNEL_SIGNED"}
                               ELSE @ \ {"KERNEL_SIGNED"} ]
       IN  Return([ Engine EXCEPT !.sd = s1 ], "load_kernel_vblock",
                  << kver, signed >>, VB2_SUCCESS, << >>)
  /\ UNCHANGED << gbb, pc, boots >>

KernelPhase3 ==
  /\ pc = "kernel"
  /\ Returns(vb2api_kernel_phase3(Engine), "kernel_phase3", << >>)
  /\ UNCHANGED << gbb, pc, boots >>

\* The normal boot path; after it the caller starts the kernel or reboots.
BootNormal ==
  /\ pc = "kernel"
  /\ pc' = "booted"
  /\ \E disks \in DiskLists :
       Returns(VbBootNormal(Engine, disks), "VbBootNormal", disks)
  /\ UNCHANGED << gbb, boots >>

NextFw == PowerCycle \/ SelectFwSlot \/ LoadFwKeyblock \/ LoadFwPreamble

\* Firmware verification over successive boots
SpecFw == InitFw /\ [][NextFw]_vars

NextKernel == KernelPhase1 \/ LoadKernelVblock \/ KernelPhase3 \/ BootNormal

\* The kernel stage of one boot, its operations in any order
SpecKernel == InitKernel /\ [][NextKernel]_vars

NextKernelApi == KernelPhase1 \/ LoadKernelVblock \/ KernelPhase3

\* Kernel verification through the vboot 2.0 API, in or out of recovery mode
SpecKernelApi == InitKernelApi /\ [][NextKernelApi]_vars

(***************************************************************************)
(* Kernel selection: VbSelectAndLoadKernel and vb2_commit_data             *)
(***************************************************************************)
\* what the first call of vb2ex_commit_data returns
CommitResults ==
  { VB2_SUCCESS, VB2_ERROR("SECDATA_FIRMWARE_WRITE"),
    VB2_ERROR("SECDATA_KERNEL_WRITE"), VB2_ERROR("NV_WRITE"),
    VB2_ERROR("UNKNOWN") }

\* recovery reasons the firmware stage hands over
HandedReasons ==
  { VB2_RECOVERY_NOT_REQUESTED, VB2_RECOVERY("RO_MANUAL"),
    VB2_RECOVERY("FW_KEYBLOCK"), VB2_RECOVERY("TRAIN_AND_REBOOT") }

\* subcodes vb2api_fail left in NV with the request of the boot before
HandedSubcodes == { 0, 5 }

\* the external input of one VbSelectAndLoadKernel call: kernel phase 1,
\* which of the sync steps fails, the DIAGNOSTIC_UI build option, whether
\* the user lets the UI boot, the disks, and the commits inside and at exit
SelectInputs ==
  [ phase1 : { [ fault |-> "none", ec_trusted |-> TRUE, key_size |-> 40 ],
               [ fault |-> "secdata_kernel_init", ec_trusted |-> FALSE,
                 key_size |-> 40 ],
               [ fault |-> "read_recovery_key", ec_trusted |-> TRUE,
                 key_size |-> 40 ] },
    sync : { "ok", "ec_sync", "auxfw_sync" },
    DIAGNOSTIC_UI : BOOLEAN,
    ui_boot : BOOLEAN,
    disks : { << >>,
              << [ usable |-> TRUE, rv |-> VB2_SUCCESS, kver |-> 2 ] >> },
    inner_commit : { VB2_SUCCESS, VB2_ERROR("NV_WRITE") },
    commit : { VB2_SUCCESS, VB2_ERROR("SECDATA_KERNEL_WRITE"),
               VB2_ERROR("NV_WRITE") } ]

\* The firmware stage is over: it verified a firmware slot or did not get
\* as far as choosing one, or it left a recovery reason and RECOVERY_MODE
\* (vb2_check_recovery sets both).
InitSelect ==
  /\ gbb = GbbOf({})
  /\ boots = 0
  /\ pc = "preamble"
  /\ call = NoCall
  /\ \E reason \in HandedReasons, sub \in HandedSubcodes, dev \in BOOLEAN,
        diag \in {0, 1}, cutoff \in {0, 1}, verified \in BOOLEAN :
       LET n == [ NvOf(reason, IF reason = VB2_RECOVERY_NOT_REQUESTED
                                 THEN 0 ELSE sub, 0, 0, 0, "SUCCESS")
                    EXCEPT !.kernel_max_rollforward = MaxKernelVersion + 1,
                           !.diag_request = diag,
                           !.battery_cutoff_request = cutoff ]
           sec == [ fw_versions |-> Shl16(2) + 2, kernel_versions |-> 1 ]
           sdf == (IF dev THEN {"DEV_MODE_ENABLED"} ELSE {})
                    \cup (IF reason = VB2_RECOVERY("RO_MANUAL")
                            THEN {"MANUAL_RECOVERY"} ELSE {})
           e0 == [ nv |-> n, sd |-> SdAtBoot(sec), flags |-> {},
                   secdata |-> sec, shared |-> SharedAtBoot ]
           e1 == IF reason # VB2_RECOVERY_NOT_REQUESTED
                   THEN [ e0 EXCEPT !.flags = {"RECOVERY_MODE"} ]
                 ELSE IF verified THEN FwVerified(e0, gbb)
                 ELSE e0
           e2 == [ e1 EXCEPT !.sd = [ @ EXCEPT !.recovery_reason = reason,
                                               !.flags = sdf ] ]
       IN  /\ nv = e2.nv
           /\ sd = e2.sd
           /\ flags = e2.flags
           /\ secdata = e2.secdata
           /\ shared = e2.shared
           /\ old = e2

\* The engine state, the call record and the external calls become those of r.
ReturnsExt(r, op, in) == ReturnExt(r.e, op, in, r.rv, r.fails, r.ext)

\* A caller commits NV and secure storage before it reboots or shuts down.
CommitData ==
  /\ pc = "preamble"
  /\ \E first \in CommitResults :
       \E r \in { vb2_commit_data(Engine, first) } :
           /\ ReturnsExt(r, "commit_data", first)
           /\ pc' = IF r.rv = VB2_DIE THEN "halted" ELSE "committed"
  /\ UNCHANGED << gbb, boots >>

\* The kernel stage, from its entry to the kernel hand-over or a reboot.
SelectAndLoadKernel ==
  /\ pc = "preamble"
  /\ \E in \in SelectInputs :
       \E r \in { VbSelectAndLoadKernel(Engine, gbb, in) } :
           /\ ReturnsExt(r, "VbSelectAndLoadKernel", in)
           /\ pc' = IF r.rv = VB2_DIE THEN "halted" ELSE "booted"
  /\ UNCHANGED << gbb, boots >>

NextSelect == CommitData \/ SelectAndLoadKernel

\* The kernel stage of one boot as the firmware calls it
SpecSelect == InitSelect /\ [][NextSelect]_vars

(***************************************************************************)
(* Recovery decision of firmware phase 1 over successive boots             *)
(***************************************************************************)
\* reasons a failure earlier in firmware phase 1 leaves in the shared data
EarlyReasons == { VB2_RECOVERY("RO_UNSPECIFIED") }

InitRecovery ==
  /\ nv \in { NvOf(req, sub, 0, 0, 0, "UNKNOWN") :
                req \in {0, VB2_RECOVERY("FW_KEYBLOCK")}, sub \in {0, 7} }
  /\ secdata = [ fw_versions |-> 0, kernel_versions |-> 0 ]
  /\ gbb = GbbOf({})
  /\ sd = SdAtBoot(secdata)
  /\ flags \in CallerFlags
  /\ shared = SharedAtBoot
  /\ pc = "phase1"
  /\ boots = 0
  /\ call = NoCall
  /\ old = Engine

\* The caller found the recovery switch pressed and says so before phase 1
\* looks at it.
RecoverySwitch ==
  /\ pc = "phase1"
  /\ "FORCE_RECOVERY_MODE" \notin flags
  /\ Return([ Engine EXCEPT !.flags = @ \cup {"FORCE_RECOVERY_MODE"} ],
            "recovery_switch", << >>, VB2_SUCCESS, << >>)
  /\ UNCHANGED << gbb, pc, boots >>

\* A step of phase 1 before the recovery check failed and left its reason.
EarlyFailure ==
  /\ pc = "phase1"
  /\ sd.recovery_reason = 0
  /\ \E r \in EarlyReasons :
       Return([ Engine EXCEPT !.sd = [ @ EXCEPT !.recovery_reason = r ] ],
              "early_failure", << r >>, VB2_SUCCESS, << >>)
  /\ UNCHANGED << gbb, pc, boots >>

CheckRecovery ==
  /\ pc \in { "phase1", "checked" }
  /\ pc' = "checked"
  /\ Return(vb2_check_recovery(Engine), "check_recovery", << >>,
            VB2_SUCCESS, << >>)
  /\ UNCHANGED << gbb, boots >>

NextRecovery ==
  PowerCycle \/ RecoverySwitch \/ EarlyFailure \/ CheckRecovery \/ ApiFail

SpecRecovery == InitRecovery /\ [][NextRecovery]_vars

(***************************************************************************)
(* Firmware verification in work buffers of several sizes                  *)
(***************************************************************************)
\* work buffers that end before the root key, the keyblock header or the
\* keyblock fits after the shared data, and one that holds everything
WorkbufSizes ==
  LET root == WorkbufUsedAtBoot + vb2_wb_round_up(RootKeySize)
  IN  { root - VB2_WORKBUF_ALIGN,
        root,
        root + vb2_wb_round_up(SizeofKeyblock),
        root + vb2_wb_round_up(KeyblockSize),
        WorkbufSize }

\* what is left of the work buffer before the preamble is loaded: less
\* than the preamble header, exactly the header, less than the preamble,
\* exactly the preamble
PreambleRooms ==
  { vb2_wb_round_up(SizeofFwPreamble) - VB2_WORKBUF_ALIGN,
    vb2_wb_round_up(SizeofFwPreamble),
    vb2_wb_round_up(PreambleSize) - VB2_WORKBUF_ALIGN,
    vb2_wb_round_up(PreambleSize) }

\* the shared data after the keyblock of a good vblock was loaded, with
\* room bytes of the work buffer left
KeyblockLoadedWithRoom(sec, g, room) ==
  LET e0 == [ nv |-> NvOf(0, 0, 0, 0, 0, "UNKNOWN"), sd |-> SdAtBoot(sec),
              flags |-> {}, secdata |-> sec, shared |-> SharedAtBoot ]
      s1 == vb2_load_fw_keyblock(vb2_select_fw_slot(e0), g, GoodKeyblock(sec)).e.sd
  IN  [ s1 EXCEPT !.workbuf_used = s1.workbuf_size - room ]

InitWorkbuf ==
  /\ nv \in { NvOf(0, 0, 0, 0, 0, result) : result \in { "UNKNOWN", "SUCCESS" } }
  /\ secdata \in [ fw_versions : FwVersionsStored, kernel_versions : {1} ]
  /\ gbb \in { GbbOf({}), GbbOf({"DISABLE_FW_ROLLBACK_CHECK"}) }
  /\ \/ /\ \E w \in WorkbufSizes :
              sd = [ SdAtBoot(secdata) EXCEPT !.workbuf_size = w ]
        /\ pc = "phase1"
     \/ /\ \E room \in PreambleRooms :
              sd = KeyblockLoadedWithRoom(secdata, gbb, room)
        /\ pc = "keyblock"
  /\ flags = {}
  /\ shared = SharedAtBoot
  /\ boots = 0
  /\ call = NoCall
  /\ old = Engine

NextWorkbuf ==
  SelectFwSlot \/ LoadFwKeyblock \/ LoadFwPreamble \/ KernelPhase1

SpecWorkbuf == InitWorkbuf /\ [][NextWorkbuf]_vars

(***************************************************************************)
(* The verification API called on shared data of any stage                 *)
(***************************************************************************)
KernelDataFaults == { "none", "unpack_key", "verify_digest" }

KernelDataInputs ==
  [ size : { KernelBodySize, KernelBodySize + 1 }, fault : KernelDataFaults ]

\* work buffers with room for the digest context and the digest, without
\* room for the context after the firmware preamble alone or after the data
\* key and the preamble, and with room for the context only
PhaseWorkbufSizes ==
  LET pre == WorkbufUsedAtBoot + vb2_wb_round_up(PreambleSize)
      ctx == vb2_wb_round_up(SizeofDigestContext) - VB2_WORKBUF_ALIGN
      all == pre + vb2_wb_round_up(DataKeySize)
  IN  { WorkbufSize, pre + ctx, all + ctx,
        all + vb2_wb_round_up(SizeofDigestContext) }

\* The shared data as an earlier stage left it in the caller's work
\* buffer: after slot selection, after the keyblock or after the preamble
\* of a good vblock, and with the data key's size cleared or not.
InitPhaseOrder ==
  /\ nv = NvOf(0, 0, 0, 0, 0, "UNKNOWN")
  /\ secdata \in [ fw_versions : FwVersionsStored, kernel_versions : {1} ]
  /\ gbb = GbbOf({})
  /\ flags \in { {}, {"RECOVERY_MODE"} }
  /\ shared = SharedAtBoot
  /\ \E stage \in { "phase2", "keyblock", "preamble" }, nokey \in BOOLEAN,
        w \in PhaseWorkbufSizes :
       LET e0 == [ nv |-> nv,
                   sd |-> [ SdAtBoot(secdata) EXCEPT !.workbuf_size = w ],
                   flags |-> flags, secdata |-> secdata, shared |-> shared ]
           e1 == vb2_select_fw_slot(e0)
           e2 == IF stage = "phase2" THEN e1
                 ELSE vb2_load_fw_keyblock(e1, gbb, GoodKeyblock(secdata)).e
           e3 == IF stage = "preamble"
                   THEN vb2_load_fw_preamble(e2, gbb, GoodPreamble(secdata)).e
                   ELSE e2
       IN  sd = IF nokey THEN [ e3.sd EXCEPT !.data_key_size = 0 ] ELSE e3.sd
  /\ pc = "phase2"
  /\ boots = 0
  /\ call = NoCall
  /\ old = Engine

GetKernelSize ==
  /\ pc # "stopped"
  /\ Returns(vb2api_get_kernel_size(Engine), "get_kernel_size", << >>)
  /\ UNCHANGED << gbb, pc, boots >>

VerifyKernelData ==
  /\ pc # "stopped"
  /\ \E in \in KernelDataInputs :
       Returns(vb2api_verify_kernel_data(Engine, in), "verify_kernel_data", in)
  /\ UNCHANGED << gbb, pc, boots >>

NextPhaseOrder ==
  LoadFwPreamble \/ KernelPhase1 \/ GetKernelSize \/ VerifyKernelData

SpecPhaseOrder == InitPhaseOrder /\ [][NextPhaseOrder]_vars

(***************************************************************************)
(* The developer switch over successive boots                              *)
(***************************************************************************)
SecdataFlagSets == SUBSET { "DEV_MODE", "LAST_BOOT_DEVELOPER" }

\* NV settings of the developer boot options: usb, legacy, signed_only,
\* default_boot
DevBootSettings == { << 0, 0, 0, 0 >>, << 1, 0, 0, 1 >>, << 0, 1, 1, 2 >> }

\* NV with the fields of the developer switch
DevNvOf(request, boot) ==
  [ disable_dev_request |-> request,
    dev_boot_usb |-> boot[1],
    dev_boot_legacy |-> boot[2],
    dev_boot_signed_only |-> boot[3],
    dev_default_boot |-> boot[4],
    req_wipeout |-> 0 ] @@ NvOf(0, 0, 0, 0, 0, "UNKNOWN")

\* what firmware phase 1 did before vb2_check_dev_switch: a normal boot, a
\* boot the caller starts with DISABLE_DEVELOPER_MODE or with
\* FORCE_WIPEOUT_MODE, a manual recovery boot, and a recovery boot after
\* secdata_firmware failed to initialise
DevBootKinds == { "normal", "disable", "wipeout", "recovery", "no_secdata" }

DevCtxFlags(kind) ==
  IF kind = "disable" THEN {"DISABLE_DEVELOPER_MODE"}
  ELSE IF kind = "wipeout" THEN {"FORCE_WIPEOUT_MODE"}
  ELSE IF kind \in { "recovery", "no_secdata" } THEN {"RECOVERY_MODE"}
  ELSE {}

DevSdAtBoot(sec, kind) ==
  LET s0 == SdAtBoot(sec)
  IN  IF kind = "recovery"
        THEN [ s0 EXCEPT !.flags = @ \cup {"MANUAL_RECOVERY"},
                         !.recovery_reason = VB2_RECOVERY("RO_MANUAL") ]
      ELSE IF kind = "no_secdata"
        THEN [ s0 EXCEPT !.status = @ \ {"SECDATA_FIRMWARE_INIT"},
                         !.recovery_reason = VB2_RECOVERY("RO_UNSPECIFIED") ]
      ELSE s0

DevSwitchInputs == [ clear : { "ok", "fail" } ]

InitDev ==
  /\ nv \in { DevNvOf(request, boot) :
                request \in {0, 1}, boot \in DevBootSettings }
  /\ secdata \in { [ flags |-> f ] @@ sec :
                     f \in SecdataFlagSets,
                     sec \in [ fw_versions : FwVersionsStored,
                               kernel_versions : {1} ] }
  /\ gbb \in { GbbOf({}), GbbOf({"FORCE_DEV_SWITCH_ON"}) }
  /\ \E kind \in DevBootKinds :
       /\ sd = DevSdAtBoot(secdata, kind)
       /\ flags = DevCtxFlags(kind)
  /\ shared = SharedAtBoot
  /\ pc = "phase1"
  /\ boots = 0
  /\ call = NoCall
  /\ old = Engine

DevPowerCycle ==
  /\ boots < MaxBoots
  /\ boots' = boots + 1
  /\ pc' = "phase1"
  /\ \E kind \in DevBootKinds :
       Return([ Engine EXCEPT !.sd = DevSdAtBoot(secdata, kind),
                              !.flags = DevCtxFlags(kind),
                              !.shared = SharedAtBoot ],
              "boot", kind, VB2_SUCCESS, << >>)
  /\ UNCHANGED gbb

\* Firmware phase 1 calls vb2_check_dev_switch once per boot.
CheckDevSwitch ==
  /\ pc = "phase1"
  /\ \E in \in DevSwitchInputs :
       LET r == vb2_check_dev_switch(Engine, gbb, in)
       IN  /\ ReturnsExt(r, "check_dev_switch", in)
           /\ pc' = IF r.rv = VB2_SUCCESS THEN "devswitch" ELSE "stopped"
  /\ UNCHANGED << gbb, boots >>

\* The user confirms the switch to developer mode on the recovery screen:
\* VbBootRecovery calls vb2_enable_developer_mode and asks for a reboot.
EnableDeveloperMode ==
  /\ pc = "devswitch"
  /\ "RECOVERY_MODE" \in flags
  /\ "MANUAL_RECOVERY" \in sd.flags
  /\ "DEV_MODE_ENABLED" \notin sd.flags
  /\ pc' = "stopped"
  /\ \E usb \in {0, 1} :
       LET r == vb2_enable_developer_mode(Engine)
           e1 == [ r.e EXCEPT !.nv = [ @ EXCEPT !.dev_boot_usb =
                                         IF usb = 1 THEN 1 ELSE @ ] ]
       IN  ReturnExt(e1, "enable_developer_mode", usb,
                     VB2_ERROR("EC_REBOOT_TO_RO_REQUIRED"), r.fails, r.ext)
  /\ UNCHANGED << gbb, boots >>

\* The user confirms the return to normal mode on the developer screen:
\* VbBootDeveloper sets the disable request and asks for a reboot.
DisableDevRequest ==
  /\ pc = "devswitch"
  /\ "DEV_MODE_ENABLED" \in sd.flags
  /\ "FORCE_DEV_SWITCH_ON" \notin gbb.flags
  /\ pc' = "stopped"
  /\ ReturnExt([ Engine EXCEPT !.nv = [ @ EXCEPT !.disable_dev_request = 1 ] ],
               "disable_dev_request", << >>, VB2_ERROR("REBOOT_REQUIRED"),
               << >>, << >>)
  /\ UNCHANGED << gbb, boots >>

NextDev ==
  DevPowerCycle \/ CheckDevSwitch \/ EnableDeveloperMode \/ DisableDevRequest

SpecDev == InitDev /\ [][NextDev]_vars

(***************************************************************************)
(* Slot selection over a run of boots that report no result                *)
(***************************************************************************)
\* The record of a run of boots: the try_next and try_count it started
\* with, the slot each boot selected, whether the caller passed
\* NOFAIL_BOOT to that boot, the boots that reported a failure, and whether
\* no boot reported a result so far.
TryRun(next, count) ==
  [ next |-> next, count |-> count, slots |-> << >>, nofail |-> << >>,
    failed |-> {}, clean |-> TRUE ]

\* the longest run: the tries are used up and the fallback is seen on the
\* boots after
MaxRun == MaxTryCount + MaxBoots

InitTry ==
  /\ nv \in { NvOf(0, 0, count, next, tried, result) :
                count \in 1..MaxTryCount, next \in {0, 1},
                tried \in {0, 1}, result \in FwResults }
  /\ secdata = [ fw_versions |-> 0, kernel_versions |-> 0 ]
  /\ gbb = GbbOf({})
  /\ sd = SdAtBoot(secdata)
  /\ flags = {}
  /\ shared = SharedAtBoot
  /\ pc = "phase1"
  /\ boots = 0
  /\ call = [ NoCall EXCEPT !.in = TryRun(nv.try_next, nv.try_count) ]
  /\ old = Engine

\* One boot of the run: the system is reset, the caller passes its flags
\* and firmware phase 1 selects the slot.
TryBoot ==
  /\ boots < MaxRun
  /\ boots' = boots + 1
  /\ pc' = "phase2"
  /\ \E f \in CallerFlags :
       LET e0 == [ Engine EXCEPT !.sd = SdAtBoot(secdata),
                                 !.flags = f,
                                 !.shared = SharedAtBoot ]
           e1 == vb2_select_fw_slot(e0)
       IN  Return(e1, "try_boot",
                  [ call.in EXCEPT
                      !.slots = Append(@, e1.sd.fw_slot),
                      !.nofail = Append(@, "NOFAIL_BOOT" \in f) ],
                  VB2_SUCCESS, << >>)
  /\ UNCHANGED gbb

\* A later step of the boot fails and reports it.
TryFail ==
  /\ pc = "phase2"
  /\ pc' = "stopped"
  /\ \E reason \in FailReasons :
       Return(vb2api_fail(Engine, reason, 0), "try_fail",
              [ call.in EXCEPT !.clean = FALSE,
                               !.failed = @ \cup { Len(call.in.slots) } ],
              VB2_SUCCESS, << << reason, 0 >> >>)
  /\ UNCHANGED << gbb, boots >>

NextTry == TryBoot \/ TryFail

SpecTry == InitTry /\ [][NextTry]_vars

(***************************************************************************)
(* The recovery UI and the boot after it                                   *)
(***************************************************************************)
\* a disk with a recovery image
RecoveryImage == << [ usable |-> TRUE, rv |-> VB2_SUCCESS, kver |-> 2 ] >>

\* what the user does in one turn of the recovery UI: nothing, a shutdown
\* request, Ctrl+D with the presence button free or pressed, ENTER on the
\* internal or on another keyboard, SPACE, the presence button alone,
\* Ctrl+C, or a disk with a recovery image
RecoveryTurns ==
  { UiTurn("NONE", TRUE, FALSE, FALSE, << >>),
    UiTurn("NONE", TRUE, FALSE, TRUE, << >>),
    UiTurn("CTRL_D", TRUE, FALSE, FALSE, << >>),
    UiTurn("CTRL_D", TRUE, TRUE, FALSE, << >>),
    UiTurn("ENTER", TRUE, FALSE, FALSE, << >>),
    UiTurn("ENTER", FALSE, FALSE, FALSE, << >>),
    UiTurn("SPACE", TRUE, FALSE, FALSE, << >>),
    UiTurn("NONE", TRUE, TRUE, FALSE, << >>),
    UiTurn("CTRL_C", TRUE, FALSE, FALSE, << >>),
    UiTurn("NONE", TRUE, FALSE, FALSE, RecoveryImage) }

RecoveryScripts == UNION { [ 1..n -> RecoveryTurns ] : n \in 0..MaxTurns }

\* the build options PHYSICAL_PRESENCE_KEYBOARD, DIAGNOSTIC_UI and
\* USB_BOOT_ON_DEV of four boards
BuildOptions ==
  { << TRUE, FALSE, FALSE >>, << TRUE, TRUE, TRUE >>,
    << FALSE, TRUE, FALSE >>, << FALSE, FALSE, TRUE >> }

RecoveryUiInputs ==
  { [ turns |-> t, ec_trusted |-> ec, inner_commit |-> c,
      PHYSICAL_PRESENCE_KEYBOARD |-> b[1], DIAGNOSTIC_UI |-> b[2],
      USB_BOOT_ON_DEV |-> b[3] ] :
      t \in RecoveryScripts, ec \in BOOLEAN,
      c \in { VB2_SUCCESS, VB2_ERROR("NV_WRITE") }, b \in BuildOptions }

\* A recovery boot at the point where VbSelectAndLoadKernel, having cleared
\* the recovery request, calls VbBootRecovery: the recovery was asked for
\* by the user or not, the device is in developer mode or not.
InitRecoveryUi ==
  /\ boots = 0
  /\ pc = "recovery"
  /\ call = NoCall
  /\ shared = SharedAtBoot
  /\ gbb \in { GbbOf({}), GbbOf({"FORCE_MANUAL_RECOVERY"}) }
  /\ \E manual \in BOOLEAN, dev \in BOOLEAN :
       LET sec == [ flags |-> IF dev THEN {"DEV_MODE", "LAST_BOOT_DEVELOPER"}
                              ELSE {} ]
                    @@ [ fw_versions |-> Shl16(2) + 2, kernel_versions |-> 1 ]
           s0 == SdAtBoot(sec)
       IN  /\ secdata = sec
           /\ nv = DevNvOf(0, << 0, 0, 0, 0 >>)
           /\ sd = [ s0 EXCEPT
                       !.recovery_reason =
                          IF manual THEN VB2_RECOVERY("RO_MANUAL")
                          ELSE VB2_RECOVERY("FW_KEYBLOCK"),
                       !.flags = (IF manual THEN {"MANUAL_RECOVERY"} ELSE {})
                                   \cup (IF dev THEN {"DEV_MODE_ENABLED"}
                                         ELSE {}) ]
           /\ flags = {"RECOVERY_MODE"}
                        \cup (IF dev THEN {"DEVELOPER_MODE"} ELSE {})
  /\ old = Engine

\* VbBootRecovery runs the recovery UI with the turns the user takes.
RecoveryUi ==
  /\ pc = "recovery"
  /\ \E ui \in RecoveryUiInputs :
       \E r \in { recovery_ui(Engine, gbb, ui) } :
           /\ ReturnsExt(r, "recovery_ui", ui)
           /\ pc' = IF r.rv = VB2_WAITING THEN "waiting" ELSE "stopped"
  /\ UNCHANGED << gbb, boots >>

\* The device reboots into a boot without a recovery request.
RebootToNormal ==
  /\ pc = "stopped"
  /\ call.rv # VB2_SUCCESS
  /\ boots < MaxBoots
  /\ boots' = boots + 1
  /\ pc' = "phase1"
  /\ Return([ Engine EXCEPT !.sd = DevSdAtBoot(secdata, "normal"),
                            !.flags = {},
                            !.shared = SharedAtBoot ],
            "boot", "normal", VB2_SUCCESS, << >>)
  /\ UNCHANGED gbb

NextRecoveryUi == RecoveryUi \/ RebootToNormal \/ CheckDevSwitch

SpecRecoveryUi == InitRecoveryUi /\ [][NextRecoveryUi]_vars

(***************************************************************************)
(* Recovery boots and the boot after them                                  *)
(***************************************************************************)
\* What the boot before left: the recovery screen it showed ("none" when it
\* did not run the recovery UI), its recovery reason, and whether a
\* recovery request was written to NV after it.
BootBefore(screen, reason, requested) ==
  [ screen |-> screen, reason |-> reason, requested |-> requested ]

\* requests found in NV at the first boot, and requests written between two
\* boots
StoredRequests == { 0, VB2_RECOVERY("FW_KEYBLOCK"), VB2_RECOVERY("TRAIN_AND_REBOOT") }
NewRequests == { 0, VB2_RECOVERY("RW_NO_KERNEL") }

\* the external input of VbSelectAndLoadKernel in these boots; every commit
\* succeeds, so that NV is what the next boot reads
BrokenInputs ==
  [ phase1 : [ fault : { "none" }, ec_trusted : BOOLEAN, key_size : { 40 } ],
    sync : { "ok" },
    DIAGNOSTIC_UI : BOOLEAN,
    ui_boot : BOOLEAN,
    disks : { << >>, RecoveryImage },
    inner_commit : { VB2_SUCCESS },
    commit : { VB2_SUCCESS } ]

InitBroken ==
  /\ nv \in { NvOf(req, sub, 0, 0, 0, "UNKNOWN") :
                req \in StoredRequests, sub \in { 0, 7 } }
  /\ secdata = [ fw_versions |-> Shl16(2) + 2, kernel_versions |-> 1 ]
  /\ gbb = GbbOf({})
  /\ sd = SdAtBoot(secdata)
  /\ flags \in { {}, {"FORCE_RECOVERY_MODE"} }
  /\ shared = SharedAtBoot
  /\ pc = "phase1"
  /\ boots = 0
  /\ call = [ NoCall EXCEPT !.in = BootBefore("none", 0, FALSE) ]
  /\ old = Engine

\* Firmware phase 1 decides whether this is a recovery boot.
BrokenCheckRecovery ==
  /\ pc = "phase1"
  /\ \E e \in { vb2_check_recovery(Engine) } :
       /\ Return(e, "check_recovery", call.in, VB2_SUCCESS, << >>)
       /\ pc' = IF "RECOVERY_MODE" \in e.flags THEN "recovery" ELSE "normal"
  /\ UNCHANGED << gbb, boots >>

\* A recovery boot skips firmware verification and runs the kernel stage.
BrokenSelectKernel ==
  /\ pc = "recovery"
  /\ pc' = "stopped"
  /\ \E in \in BrokenInputs :
       ReturnsExt(VbSelectAndLoadKernel(Engine, gbb, in),
                  "VbSelectAndLoadKernel", in)
  /\ UNCHANGED << gbb, boots >>

\* what this boot leaves to the next one
ThisBootLeft(requested) ==
  IF call.op = "VbSelectAndLoadKernel"
       /\ \E i \in 1..Len(call.ext) : call.ext[i] = "VbBootRecovery"
    THEN BootBefore(IF vb2_allow_recovery(old, gbb, call.in.phase1.ec_trusted)
                      THEN "manual" ELSE "broken",
                    old.sd.recovery_reason, requested)
    ELSE BootBefore("none", 0, requested)

\* The device is switched on again, with the recovery switch pressed or
\* not; something may have written a recovery request to NV in between.
BrokenReboot ==
  /\ pc \in { "normal", "stopped" }
  /\ boots < MaxBoots
  /\ boots' = boots + 1
  /\ pc' = "phase1"
  /\ \E forced \in BOOLEAN, req \in NewRequests :
       Return([ Engine EXCEPT
                  !.nv = IF req # 0 THEN [ @ EXCEPT !.recovery_request = req ]
                         ELSE @,
                  !.sd = SdAtBoot(secdata),
                  !.flags = IF forced THEN {"FORCE_RECOVERY_MODE"} ELSE {},
                  !.shared = SharedAtBoot ],
              "boot", ThisBootLeft(req # 0), VB2_SUCCESS, << >>)
  /\ UNCHANGED gbb

NextBroken == BrokenCheckRecovery \/ BrokenSelectKernel \/ BrokenReboot

SpecBroken == InitBroken /\ [][NextBroken]_vars

(***************************************************************************)
(* The developer UI and the boot after it                                  *)
(***************************************************************************)
\* what the user does in one turn of the developer UI: a shutdown request,
\* ENTER, SPACE, ESC, Ctrl+D, Ctrl+L, Ctrl+U with a bootable USB disk, a
\* digit, the presence button alone, or nothing until the countdown ends
\* with a bootable USB disk inserted
DeveloperUiTurns ==
  { UiTurn("NONE", TRUE, FALSE, TRUE, << >>),
    UiTurn("ENTER", TRUE, FALSE, FALSE, << >>),
    UiTurn("SPACE", TRUE, FALSE, FALSE, << >>),
    UiTurn("ESC", TRUE, FALSE, FALSE, << >>),
    UiTurn("CTRL_D", TRUE, FALSE, FALSE, << >>),
    UiTurn("CTRL_L", TRUE, FALSE, FALSE, << >>),
    UiTurn("CTRL_U", TRUE, FALSE, FALSE, RecoveryImage),
    UiTurn("DIGIT", TRUE, FALSE, FALSE, << >>),
    UiTurn("NONE", TRUE, TRUE, FALSE, << >>),
    UiTurn("TIMEOUT", TRUE, FALSE, FALSE, RecoveryImage) }

DeveloperScripts == UNION { [ 1..n -> DeveloperUiTurns ] : n \in 0..MaxTurns }

\* the FWMP flags of three devices
FwmpSettings ==
  { {}, {"DEV_DISABLE_BOOT"}, {"DEV_ENABLE_USB", "DEV_ENABLE_LEGACY"} }

\* two boards: confirmation by keyboard and no alternative firmware that
\* starts, confirmation by button and alternative firmware that starts
DeveloperBoards == { << TRUE, FALSE >>, << FALSE, TRUE >> }

DeveloperUiInputs ==
  { [ turns |-> t, fwmp |-> f, fixed |-> d,
      PHYSICAL_PRESENCE_KEYBOARD |-> b[1], altfw_runs |-> b[2] ] :
      t \in DeveloperScripts, f \in FwmpSettings,
      d \in { << >>, RecoveryImage }, b \in DeveloperBoards }

\* A developer boot at the point where VbSelectAndLoadKernel calls
\* VbBootDeveloper.
InitDevUi ==
  /\ boots = 0
  /\ pc = "developer"
  /\ call = NoCall
  /\ shared = SharedAtBoot
  /\ gbb \in { GbbOf({}), GbbOf({"FORCE_DEV_SWITCH_ON"}),
               GbbOf({"ENTER_TRIGGERS_TONORM"}) }
  /\ \E boot \in DevBootSettings :
       LET sec == [ flags |-> {"DEV_MODE", "LAST_BOOT_DEVELOPER"} ]
                    @@ [ fw_versions |-> Shl16(2) + 2, kernel_versions |-> 1 ]
       IN  /\ secdata = sec
           /\ nv = DevNvOf(0, boot)
           /\ sd = [ SdAtBoot(sec) EXCEPT !.flags = {"DEV_MODE_ENABLED"} ]
           /\ flags = {"DEVELOPER_MODE"}
  /\ old = Engine

\* VbBootDeveloper runs the developer UI with the turns the user takes.
DeveloperUi ==
  /\ pc = "developer"
  /\ \E ui \in DeveloperUiInputs :
       \E r \in { vb2_developer_ui(Engine, gbb, ui) } :
           /\ ReturnsExt(r, "vb2_developer_ui", ui)
           /\ pc' = IF r.rv = VB2_WAITING THEN "waiting" ELSE "stopped"
  /\ UNCHANGED << gbb, boots >>

NextDevUi == DeveloperUi \/ RebootToNormal \/ CheckDevSwitch

SpecDevUi == InitDevUi /\ [][NextDevUi]_vars

(***************************************************************************)
(* The diagnostic boot and the boot after it                               *)
(***************************************************************************)
\* what happens in one turn of the diagnostic UI: the power button is free
\* or pressed, the lid is open or closed, no key, ESC or ENTER is pressed,
\* or the 30 seconds are over
DiagnosticUiTurns ==
  { UiTurn("NONE", TRUE, FALSE, FALSE, << >>),
    UiTurn("NONE", TRUE, TRUE, FALSE, << >>),
    UiTurn("NONE", TRUE, FALSE, TRUE, << >>),
    UiTurn("NONE", TRUE, TRUE, TRUE, << >>),
    UiTurn("ESC", TRUE, FALSE, FALSE, << >>),
    UiTurn("ESC", TRUE, TRUE, FALSE, << >>),
    UiTurn("ENTER", TRUE, FALSE, FALSE, << >>),
    UiTurn("TIMEOUT", TRUE, FALSE, FALSE, << >>) }

DiagnosticScripts == UNION { [ 1..n -> DiagnosticUiTurns ] : n \in 0..MaxTurns }

DiagnosticUiInputs ==
  { [ turns |-> t, tpm_set_mode |-> m, altfw_runs |-> a ] :
      t \in DiagnosticScripts,
      m \in { VB2_SUCCESS, VB2_ERROR("UNKNOWN") }, a \in BOOLEAN }

\* A boot with DIAGNOSTIC_UI and a diagnostic request in NV, in normal or in
\* developer mode, at the point where VbSelectAndLoadKernel selects the
\* boot path.
InitDiagUi ==
  /\ boots = 0
  /\ pc = "diagnostic"
  /\ call = NoCall
  /\ shared = SharedAtBoot
  /\ gbb = GbbOf({})
  /\ \E dev \in BOOLEAN :
       LET sec == [ flags |-> IF dev THEN {"DEV_MODE", "LAST_BOOT_DEVELOPER"}
                              ELSE {} ]
                    @@ [ fw_versions |-> Shl16(2) + 2, kernel_versions |-> 1 ]
       IN  /\ secdata = sec
           /\ nv = [ DevNvOf(0, << 0, 0, 0, 0 >>) EXCEPT !.diag_request = 1 ]
           /\ sd = [ SdAtBoot(sec) EXCEPT
                       !.flags = IF dev THEN {"DEV_MODE_ENABLED"} ELSE {} ]
           /\ flags = IF dev THEN {"DEVELOPER_MODE"} ELSE {}
  /\ old = Engine

\* VbSelectAndLoadKernel takes the diagnostic branch.
DiagnosticBoot ==
  /\ pc = "diagnostic"
  /\ nv.diag_request # 0
  /\ \E ui \in DiagnosticUiInputs :
       \E r \in { DiagnosticPath(Engine, ui) } :
           /\ ReturnsExt(r, "VbBootDiagnostic", ui)
           /\ pc' = IF r.rv = VB2_WAITING THEN "waiting"
                    ELSE IF r.rv = VB2_ALTFW THEN "altfw"
                    ELSE "stopped"
  /\ UNCHANGED << gbb, boots >>

\* the branch of VbSelectAndLoadKernel that NV and the context select
PathSelected(n, f) ==
  IF n.recovery_request # VB2_RECOVERY_NOT_REQUESTED THEN "recovery"
  ELSE IF n.diag_request # 0 THEN "diagnostic"
  ELSE IF "DEVELOPER_MODE" \in f THEN "developer"
  ELSE "normal"

\* The device reboots after the diagnostic branch returned, and the next
\* boot selects its path.
DiagnosticReboot ==
  /\ pc = "stopped"
  /\ boots < MaxBoots
  /\ boots' = boots + 1
  /\ pc' = PathSelected(nv, flags)
  /\ Return([ Engine EXCEPT !.sd = [ SdAtBoot(secdata) EXCEPT !.flags = sd.flags ],
                            !.shared = SharedAtBoot ],
            "boot", PathSelected(nv, flags), VB2_SUCCESS, << >>)
  /\ UNCHANGED gbb

NextDiagUi == DiagnosticBoot \/ DiagnosticReboot

SpecDiagUi == InitDiagUi /\ [][NextDiagUi]_vars

(***************************************************************************)
(* VbTryLoadKernel on fixed and on removable disks                         *)
(***************************************************************************)
TryLoadInputs == [ fixed : BOOLEAN, disks : DiskLists ]

\* A boot at the point where a boot path calls VbTryLoadKernel, with or
\* without a recovery request already in NV.
InitTryLoad ==
  /\ boots = 0
  /\ pc = "load"
  /\ call = NoCall
  /\ shared = SharedAtBoot
  /\ gbb = GbbOf({})
  /\ secdata = [ fw_versions |-> Shl16(2) + 2, kernel_versions |-> 1 ]
  /\ nv \in { NvOf(reason, 0, 0, 0, 0, "SUCCESS") :
                reason \in { VB2_RECOVERY_NOT_REQUESTED,
                             VB2_RECOVERY("RW_NO_DISK") } }
  /\ sd = SdAtBoot(secdata)
  /\ flags \in { {}, {"DEVELOPER_MODE"} }
  /\ old = Engine

\* A boot path calls VbTryLoadKernel.
TryLoadKernel ==
  /\ pc = "load"
  /\ \E in \in TryLoadInputs :
       LET r == VbTryLoadKernel(Engine, in.fixed, in.disks)
       IN  /\ Return(r.e, "VbTryLoadKernel", in, r.rv, r.fails)
           /\ pc' = IF r.rv = VB2_SUCCESS THEN "loaded" ELSE "failed"
  /\ UNCHANGED << gbb, boots >>

\* After a failed load from a removable disk the UI asks again.
TryLoadAgain ==
  /\ pc = "failed"
  /\ ~call.in.fixed
  /\ boots < MaxBoots
  /\ boots' = boots + 1
  /\ pc' = "load"
  /\ Return(Engine, "retry", call.in, call.rv, << >>)
  /\ UNCHANGED gbb

NextTryLoad == TryLoadKernel \/ TryLoadAgain

SpecTryLoad == InitTryLoad /\ [][NextTryLoad]_vars

(***************************************************************************)
(* The request to clear the TPM owner                                      *)
(***************************************************************************)
\* NV as the OS left it: with or without a request to clear the TPM owner,
\* with or without the done bit of an earlier clear, with or without a
\* recovery request
TpmClearNv ==
  { [ NvOf(reason, 0, count, 0, 0, "UNKNOWN")
        EXCEPT !.clear_tpm_owner_request = request,
               !.clear_tpm_owner_done = done ] :
      reason \in { VB2_RECOVERY_NOT_REQUESTED, VB2_RECOVERY("RW_NO_DISK") },
      count \in 0..MaxTryCount, request \in {0, 1}, done \in {0, 1} }

\* A boot at the point where firmware phase 1 calls vb2_check_tpm_clear,
\* before a slot is chosen.
InitTpmClear ==
  /\ boots = 0
  /\ pc = "tpm_clear"
  /\ call = NoCall
  /\ shared = SharedAtBoot
  /\ gbb = GbbOf({})
  /\ secdata = [ fw_versions |-> Shl16(2) + 2, kernel_versions |-> 1 ]
  /\ nv \in TpmClearNv
  /\ sd = SdAtBoot(secdata)
  /\ flags = {}
  /\ old = Engine

\* Firmware phase 1 calls vb2_check_tpm_clear once per boot.
CheckTpmClear ==
  /\ pc = "tpm_clear"
  /\ \E in \in DevSwitchInputs :
       LET r == vb2_check_tpm_clear(Engine, in)
       IN  /\ ReturnsExt(r, "vb2_check_tpm_clear", in)
           /\ pc' = "checked"
  /\ UNCHANGED << gbb, boots >>

\* The device reboots; the OS may have asked for another clear of the TPM
\* owner before.
TpmClearReboot ==
  /\ pc = "checked"
  /\ boots < MaxBoots
  /\ boots' = boots + 1
  /\ pc' = "tpm_clear"
  /\ \E again \in BOOLEAN :
       Return([ Engine EXCEPT
                  !.nv = IF again
                           THEN [ @ EXCEPT !.clear_tpm_owner_request = 1,
                                           !.clear_tpm_owner_done = 0 ]
                           ELSE @,
                  !.sd = SdAtBoot(secdata) ],
              "boot", again, VB2_SUCCESS, << >>)
  /\ UNCHANGED gbb

NextTpmClear == CheckTpmClear \/ TpmClearReboot

SpecTpmClear == InitTpmClear /\ [][NextTpmClear]_vars

(***************************************************************************)
(* Firmware anti-rollback and roll-forward                                 *)
(***************************************************************************)
NoRollbackCheck == "DISABLE_FW_ROLLBACK_CHECK" \in gbb.flags

\* the last operation was vb2_load_fw_keyblock on a keyblock that was read
\* and passed vb2_verify_keyblock
KeyblockVerified ==
  /\ call.op = "load_fw_keyblock"
  /\ call.in.fault = "none"
  /\ vb2_verify_keyblock(call.in) = VB2_SUCCESS
  /\ call.rv \notin { VB2_ERROR("FW_KEYBLOCK_WORKBUF_ROOT_KEY"),
                      VB2_ERROR("FW_KEYBLOCK_WORKBUF_HEADER"),
                      VB2_ERROR("FW_KEYBLOCK_WORKBUF") }

KeyRollback ==
  call.in.key_version < Shr16(old.secdata.fw_versions)

\* C1: a verified keyblock whose key version is below the upper half of
\* the firmware version in secure storage makes vb2_load_fw_keyblock
\* return FW_KEYBLOCK_VERSION_ROLLBACK and report it with vb2api_fail under
\* reason FW_KEY_ROLLBACK; with GBB flag DISABLE_FW_ROLLBACK_CHECK the call
\* succeeds instead.
C1_KeyblockRollback ==
  (KeyblockVerified /\ KeyRollback) =>
    IF NoRollbackCheck
      THEN call.rv = VB2_SUCCESS /\ call.fails = << >>
      ELSE /\ call.rv = VB2_ERROR("FW_KEYBLOCK_VERSION_ROLLBACK")
           /\ call.fails = << << VB2_RECOVERY("FW_KEY_ROLLBACK"),
                                 U8(call.rv) >> >>

C1_Witness ==
  /\ KeyblockVerified
  /\ KeyRollback
  /\ ~NoRollbackCheck
  /\ call.rv = VB2_ERROR("FW_KEYBLOCK_VERSION_ROLLBACK")
  /\ "CHOSE_SLOT" \in sd.status

\* the last operation was vb2_load_fw_preamble on a preamble that was read
\* and passed vb2_verify_fw_preamble
PreambleVerified ==
  /\ call.op = "load_fw_preamble"
  /\ old.sd.data_key_size # 0
  /\ call.in.fault = "none"
  /\ call.rv \notin { VB2_ERROR("FW_PREAMBLE2_WORKBUF_HEADER"),
                      VB2_ERROR("FW_PREAMBLE2_WORKBUF") }

\* key_version << 16 | firmware_version
ComposedVersion == BitOr(old.sd.fw_version, call.in.firmware_version)

PreambleRollback == ComposedVersion < old.secdata.fw_versions

PreambleRollbackOutcome ==
  IF NoRollbackCheck
    THEN call.rv = VB2_SUCCESS /\ call.fails = << >>
    ELSE /\ call.rv = VB2_ERROR("FW_PREAMBLE_VERSION_ROLLBACK")
         /\ call.fails = << << VB2_RECOVERY("FW_ROLLBACK"), U8(call.rv) >> >>

\* C2 as stated: a verified preamble whose composed version is below the
\* version in secure storage makes vb2_load_fw_preamble return
\* FW_PREAMBLE_VERSION_ROLLBACK, reported under reason FW_ROLLBACK, or
\* succeed when GBB flag DISABLE_FW_ROLLBACK_CHECK is set.
C2_PreambleRollbackAnyVersion ==
  (PreambleVerified /\ PreambleRollback) => PreambleRollbackOutcome

\* C2: the above for a firmware_version of at most 0xffff; a larger
\* firmware_version makes the call return FW_PREAMBLE_VERSION_RANGE,
\* reported under reason FW_ROLLBACK, whatever the GBB flag.
C2_PreambleRollback ==
  PreambleVerified =>
    IF call.in.firmware_version > VB2_MAX_PREAMBLE_VERSION
      THEN /\ call.rv = VB2_ERROR("FW_PREAMBLE_VERSION_RANGE")
           /\ call.fails = << << VB2_RECOVERY("FW_ROLLBACK"), U8(call.rv) >> >>
      ELSE PreambleRollback => PreambleRollbackOutcome

C2_Witness ==
  /\ PreambleVerified
  /\ PreambleRollback
  /\ call.in.firmware_version <= VB2_MAX_PREAMBLE_VERSION
  /\ NoRollbackCheck
  /\ call.rv = VB2_SUCCESS
  /\ sd.fw_version < secdata.fw_versions

\* the roll-forward condition as the last operation found it
RollForwardDue ==
  /\ sd.fw_version > old.secdata.fw_versions
  /\ old.sd.last_fw_slot = old.sd.fw_slot
  /\ old.sd.last_fw_result = "SUCCESS"

\* C3: a successful vb2_load_fw_preamble stores the firmware version in
\* secdata_firmware exactly when it is above the stored version, the slot
\* is the one tried last boot and the last boot succeeded; otherwise the
\* stored version is unchanged.
C3_RollForwardGating ==
  (call.op = "load_fw_preamble" /\ call.rv = VB2_SUCCESS) =>
    /\ old.sd.fw_slot = sd.fw_slot
    /\ IF RollForwardDue
         THEN /\ secdata.fw_versions = sd.fw_version
              /\ secdata.fw_versions # old.secdata.fw_versions
         ELSE secdata = old.secdata

C3_Witness ==
  /\ call.op = "load_fw_preamble"
  /\ call.rv = VB2_SUCCESS
  /\ RollForwardDue
  /\ secdata.fw_versions > old.secdata.fw_versions
  /\ boots > 0

FailReturned == call.op = "fail"
FailReason == call.in[1]
FailSubcode == call.in[2]

\* At entry a slot had been chosen and the other slot was not the one that
\* was tried last boot and failed: vb2api_fail returns before the request.
FailRetargetsOnly ==
  /\ "CHOSE_SLOT" \in old.sd.status
  /\ \/ old.sd.last_fw_slot # 1 - old.sd.fw_slot
     \/ old.sd.last_fw_result # "FAILURE"

\* C5 as stated: after vb2api_fail(R, S) in any state with no prior
\* recovery request, nv.recovery_request = R and nv.recovery_subcode = S.
C5_FailAlwaysRecords ==
  (FailReturned /\ old.nv.recovery_request = 0)
    => (nv.recovery_request = FailReason /\ nv.recovery_subcode = FailSubcode)

\* C5 amended: after vb2api_fail(R, S) with no prior recovery request,
\* nv.recovery_request = R and nv.recovery_subcode = S provided no slot was
\* chosen yet or the other slot was tried last boot and failed; when a slot
\* was chosen and the other slot did not fail last boot, the request and
\* the subcode are left as they were.
C5_FailRecordsWhenNoSlotToTry ==
  (FailReturned /\ old.nv.recovery_request = 0)
    => IF FailRetargetsOnly
         THEN /\ nv.recovery_request = 0
              /\ nv.recovery_subcode = old.nv.recovery_subcode
         ELSE /\ nv.recovery_request = FailReason
              /\ nv.recovery_subcode = FailSubcode

\* C5 witness: a failure after slot choice, both slots failed in successive
\* boots, no request pending: the request and a new subcode are written.
C5_Witness ==
  /\ FailReturned
  /\ old.nv.recovery_request = 0
  /\ "CHOSE_SLOT" \in old.sd.status
  /\ ~FailRetargetsOnly
  /\ nv.recovery_request = FailReason
  /\ nv.recovery_subcode = FailSubcode
  /\ nv.recovery_subcode # old.nv.recovery_subcode

\* C6: a pending recovery request is never overwritten: if
\* nv.recovery_request is non-zero when vb2api_fail is called, neither the
\* request nor the subcode changes.
C6_RequestNeverOverwritten ==
  (FailReturned /\ old.nv.recovery_request # 0)
    => /\ nv.recovery_request = old.nv.recovery_request
       /\ nv.recovery_subcode = old.nv.recovery_subcode

\* C6 witness: vb2api_fail reaches the recording step (no slot chosen) with
\* a different reason and subcode while a request is pending.
C6_Witness ==
  /\ FailReturned
  /\ old.nv.recovery_request # 0
  /\ ~FailRetargetsOnly
  /\ FailReason # old.nv.recovery_request
  /\ FailSubcode # old.nv.recovery_subcode

\* C7: vb2api_fail after a slot was chosen sets nv.fw_result = FAILURE and
\* nv.try_count = 0, and sets nv.try_next to the other slot unless the
\* alternate slot already failed.
C7_FailAfterSlotChoice ==
  (FailReturned /\ "CHOSE_SLOT" \in old.sd.status)
    => /\ nv.fw_result = "FAILURE"
       /\ nv.try_count = 0
       /\ FailRetargetsOnly => nv.try_next = 1 - old.sd.fw_slot

\* C7 witness: the failing boot still had tries left and try_next pointed
\* at the failing slot; afterwards try_next points at the other slot.
C7_Witness ==
  /\ FailReturned
  /\ "CHOSE_SLOT" \in old.sd.status
  /\ FailRetargetsOnly
  /\ old.nv.try_count > 0
  /\ old.nv.try_next = old.sd.fw_slot
  /\ old.nv.fw_result = "TRYING"
  /\ nv.try_next = 1 - old.sd.fw_slot

(***************************************************************************)
(* Properties of vb2_select_fw_slot (checked under SpecSlot)               *)
(***************************************************************************)
SelectReturned == call.op = "select_fw_slot"

\* the last try was used up on the previous boot
TriesExhausted ==
  /\ old.nv.fw_result = "TRYING"
  /\ old.nv.fw_tried = old.nv.try_next
  /\ old.nv.try_count = 0

\* C8: if at entry fw_result = TRYING, fw_tried = try_next and
\* try_count = 0, the chosen slot is 1 - try_next and try_next is rewritten
\* to it; otherwise the chosen slot is try_next and try_next is unchanged.
C8_SelectFallback ==
  SelectReturned
    => IF TriesExhausted
         THEN /\ sd.fw_slot = 1 - old.nv.try_next
              /\ nv.try_next = 1 - old.nv.try_next
         ELSE /\ sd.fw_slot = old.nv.try_next
              /\ nv.try_next = old.nv.try_next

\* C8 witness: try_next = 0, fw_tried = 0, fw_result = TRYING,
\* try_count = 0 falls back to slot 1.
C8_Witness ==
  /\ SelectReturned
  /\ TriesExhausted
  /\ old.nv.try_next = 0
  /\ sd.fw_slot = 1
  /\ nv.try_next = 1

\* C9: with try_count > 0 at entry, fw_result becomes TRYING and try_count
\* drops by exactly one unless NOFAIL_BOOT is set (then it is unchanged);
\* with try_count = 0, fw_result becomes UNKNOWN and try_count stays 0.
C9_SelectTryCount ==
  SelectReturned
    => IF old.nv.try_count > 0
         THEN /\ nv.fw_result = "TRYING"
              /\ nv.try_count = IF "NOFAIL_BOOT" \in old.flags
                                  THEN old.nv.try_count
                                  ELSE old.nv.try_count - 1
         ELSE /\ nv.fw_result = "UNKNOWN"
              /\ nv.try_count = 0

\* C9 witness: a NOFAIL_BOOT boot with tries left keeps its try count.
C9_Witness ==
  /\ SelectReturned
  /\ "NOFAIL_BOOT" \in old.flags
  /\ old.nv.try_count > 0
  /\ nv.try_count = old.nv.try_count
  /\ nv.fw_result = "TRYING"

\* C10: fw_tried and fw_result at entry are copied to fw_prev_tried and
\* fw_prev_result and to sd.last_fw_slot and sd.last_fw_result; on return
\* fw_tried = try_next = sd.fw_slot, a slot in {0, 1}; CHOSE_SLOT is set;
\* FW_SLOT_B is set if and only if the chosen slot is 1.
C10_SelectBookkeeping ==
  SelectReturned
    => /\ nv.fw_prev_tried = old.nv.fw_tried
       /\ nv.fw_prev_result = old.nv.fw_result
       /\ sd.last_fw_slot = old.nv.fw_tried
       /\ sd.last_fw_result = old.nv.fw_result
       /\ nv.fw_tried = sd.fw_slot
       /\ nv.try_next = sd.fw_slot
       /\ sd.fw_slot \in {0, 1}
       /\ "CHOSE_SLOT" \in sd.status
       /\ ("FW_SLOT_B" \in flags) <=> (sd.fw_slot = 1)

\* C10 witness: slot B is chosen after a boot of slot A that succeeded.
C10_Witness ==
  /\ SelectReturned
  /\ old.nv.fw_tried = 0
  /\ old.nv.fw_result = "SUCCESS"
  /\ sd.fw_slot = 1
  /\ "FW_SLOT_B" \in flags
  /\ nv.fw_prev_result = "SUCCESS"

(***************************************************************************)
(* Recovery decision                                                       *)
(***************************************************************************)
CheckReturned == call.op = "check_recovery"
Forced == "FORCE_RECOVERY_MODE" \in old.flags

\* the first of: the reason already in the shared data, the NV request,
\* RO_MANUAL or the NV subcode when recovery is forced
FirstSetReason ==
  IF old.sd.recovery_reason # 0 THEN old.sd.recovery_reason
  ELSE IF old.nv.recovery_request # 0 THEN old.nv.recovery_request
  ELSE IF Forced /\ old.nv.recovery_subcode = 0 THEN VB2_RECOVERY("RO_MANUAL")
  ELSE IF Forced THEN old.nv.recovery_subcode
  ELSE 0

\* C11 as stated: vb2_check_recovery leaves in sd.recovery_reason the first
\* that is set of the reason already there, the NV request, RO_MANUAL
\* (forced, no subcode) and the NV subcode (forced, with a subcode).
C11_FirstSetReasonWins ==
  CheckReturned => sd.recovery_reason = FirstSetReason

\* C11: that priority holds when recovery is not forced, and when it is
\* forced with neither a reason already set nor an NV request; a forced
\* recovery with a reason already set or an NV request replaces it by
\* RO_MANUAL.
C11_ReasonPriority ==
  CheckReturned =>
    sd.recovery_reason =
      IF Forced /\ ( old.sd.recovery_reason # 0 \/ old.nv.recovery_request # 0 )
        THEN VB2_RECOVERY("RO_MANUAL")
        ELSE FirstSetReason

C11_Witness ==
  /\ CheckReturned
  /\ Forced
  /\ old.sd.recovery_reason \in EarlyReasons
  /\ old.nv.recovery_request = VB2_RECOVERY("FW_KEYBLOCK")
  /\ sd.recovery_reason = VB2_RECOVERY("RO_MANUAL")

\* C12: after vb2_check_recovery entered without RECOVERY_MODE, the flag is
\* set exactly when sd.recovery_reason is non-zero; a forced recovery always
\* ends in recovery mode with sd flag MANUAL_RECOVERY, and without a reason
\* already set, an NV request or a forced recovery the boot is not in
\* recovery mode.
C12_RecoveryModeIffReason ==
  (CheckReturned /\ "RECOVERY_MODE" \notin old.flags) =>
    /\ ("RECOVERY_MODE" \in flags) <=> (sd.recovery_reason # 0)
    /\ Forced => ("RECOVERY_MODE" \in flags /\ "MANUAL_RECOVERY" \in sd.flags)
    /\ ( /\ old.sd.recovery_reason = 0
         /\ old.nv.recovery_request = 0
         /\ ~Forced ) => "RECOVERY_MODE" \notin flags

C12_Witness ==
  /\ CheckReturned
  /\ "RECOVERY_MODE" \notin old.flags
  /\ ~Forced
  /\ old.sd.recovery_reason = 0
  /\ old.nv.recovery_request # 0
  /\ "RECOVERY_MODE" \in flags
  /\ boots > 0

(***************************************************************************)
(* Failure recording of vb2_load_fw_keyblock                               *)
(***************************************************************************)
KeyblockFailed == call.op = "load_fw_keyblock" /\ call.rv # VB2_SUCCESS

KeyblockLoaded == call.op = "load_fw_keyblock" /\ call.rv = VB2_SUCCESS
PreambleLoaded == call.op = "load_fw_preamble" /\ call.rv = VB2_SUCCESS

\* C14: a successful vb2_load_fw_keyblock leaves sd.fw_version =
\* key_version << 16 and sd.vblock_preamble_offset = keyblock_size; a
\* successful vb2_load_fw_preamble after it leaves that key version in the
\* upper half of sd.fw_version and firmware_version in the lower half, both
\* at most 0xffff.
C14_CompositeVersion ==
  /\ KeyblockLoaded =>
       /\ sd.fw_version = call.in.key_version * 65536
       /\ sd.vblock_preamble_offset = call.in.keyblock_size
       /\ call.in.key_version <= 65535
  /\ PreambleLoaded =>
       /\ old.sd.fw_version % 65536 = 0
       /\ sd.fw_version \div 65536 = old.sd.fw_version \div 65536
       /\ sd.fw_version \div 65536 <= 65535
       /\ sd.fw_version % 65536 = call.in.firmware_version
       /\ call.in.firmware_version <= 65535

C14_Witness ==
  /\ PreambleLoaded
  /\ old.sd.fw_version = 3 * 65536
  /\ call.in.firmware_version = 1
  /\ sd.fw_version = 3 * 65536 + 1
  /\ sd.vblock_preamble_offset = KeyblockSize

(***************************************************************************)
(* Kernel roll forward in vb2api_kernel_phase3                             *)
(***************************************************************************)
Phase3Returned == call.op = "kernel_phase3"

\* the four conditions of the roll forward, at entry
Phase3RollForwardDue ==
  /\ old.sd.kernel_version > old.secdata.kernel_versions
  /\ "KERNEL_SIGNED" \in old.sd.flags
  /\ "RECOVERY_MODE" \notin old.flags
  /\ "ALLOW_KERNEL_ROLL_FORWARD" \in old.flags

\* C15: vb2api_kernel_phase3 writes kernel_version to secdata_kernel and to
\* sd.kernel_version_secdata exactly when kernel_version is above the stored
\* version, the kernel is signed, the context is not in recovery mode and
\* ALLOW_KERNEL_ROLL_FORWARD is set; otherwise it writes nothing; it always
\* returns success.
C15_KernelRollForwardGating ==
  Phase3Returned =>
    /\ call.rv = VB2_SUCCESS
    /\ call.fails = << >>
    /\ Phase3RollForwardDue =>
         /\ secdata.kernel_versions = old.sd.kernel_version
         /\ sd.kernel_version_secdata = old.sd.kernel_version
    /\ ~Phase3RollForwardDue =>
         /\ secdata = old.secdata
         /\ sd = old.sd

C15_Witness ==
  /\ Phase3Returned
  /\ Phase3RollForwardDue
  /\ old.secdata.kernel_versions = 1
  /\ secdata.kernel_versions = 3

(***************************************************************************)
(* Kernel version advance in VbBootNormal                                  *)
(***************************************************************************)
BootNormalReturned == call.op = "VbBootNormal"

\* VbBootNormal went on to load a kernel (no NV request had to be reset)
KernelLoadAttempted ==
  /\ BootNormalReturned
  /\ old.nv.display_request = 0
  /\ old.nv.diag_request = 0

\* what the kernel load attempt returned and left in kernel_version_tpm
LoadResult == VbTryLoadKernel(old, TRUE, call.in).rv
LoadedVersion == VbTryLoadKernel(old, TRUE, call.in).e.shared.kernel_version_tpm

Min(a, b) == IF a < b THEN a ELSE b
Max(a, b) == IF a > b THEN a ELSE b

\* min(kernel_version_tpm, max(kernel_max_rollforward, kernel_version_tpm_start))
CappedVersion ==
  Min(LoadedVersion,
      Max(old.nv.kernel_max_rollforward, old.shared.kernel_version_tpm_start))

\* C16: when nv.fw_result is not TRYING after the load attempt, VbBootNormal
\* writes min(kernel_version_tpm, max(kernel_max_rollforward,
\* kernel_version_tpm_start)) to secdata_kernel when that value is above
\* kernel_version_tpm_start, and writes nothing otherwise; a
\* kernel_max_rollforward above every kernel version imposes no cap.
C16_MaxRollforwardCap ==
  /\ (KernelLoadAttempted /\ nv.fw_result # "TRYING") =>
       /\ secdata.kernel_versions =
            IF CappedVersion > old.shared.kernel_version_tpm_start
              THEN CappedVersion ELSE old.secdata.kernel_versions
       /\ old.nv.kernel_max_rollforward > MaxKernelVersion =>
            CappedVersion = LoadedVersion
  /\ (BootNormalReturned /\ ~KernelLoadAttempted) => secdata = old.secdata

\* a kernel of version 3 is found, the limit is 2, version 2 is stored
C16_Witness ==
  /\ KernelLoadAttempted
  /\ nv.fw_result # "TRYING"
  /\ old.nv.kernel_max_rollforward = 2
  /\ old.shared.kernel_version_tpm_start = 1
  /\ LoadedVersion = 3
  /\ old.secdata.kernel_versions = 1
  /\ secdata.kernel_versions = 2

\* C17: when nv.fw_result is TRYING after the kernel load attempt of
\* VbBootNormal, secdata_kernel is left as it was, whatever
\* kernel_version_tpm and kernel_max_rollforward are, and the result of the
\* load attempt is returned unchanged.
C17_NoAdvanceWhileTrying ==
  (KernelLoadAttempted /\ nv.fw_result = "TRYING") =>
    /\ secdata = old.secdata
    /\ call.rv = LoadResult

\* a newer kernel is found while the firmware slot is being tried
C17_Witness ==
  /\ KernelLoadAttempted
  /\ nv.fw_result = "TRYING"
  /\ LoadedVersion = 3
  /\ old.shared.kernel_version_tpm_start = 1
  /\ old.nv.kernel_max_rollforward > MaxKernelVersion
  /\ call.rv = VB2_SUCCESS
  /\ secdata.kernel_versions = 1

(***************************************************************************)
(* vb2_commit_data                                                         *)
(***************************************************************************)
CommitReturned == call.op = "commit_data"

SecdataWriteFailed ==
  /\ CommitReturned
  /\ call.in \in { VB2_ERROR("SECDATA_FIRMWARE_WRITE"),
                   VB2_ERROR("SECDATA_KERNEL_WRITE") }

NvWriteFailed ==
  /\ CommitReturned
  /\ call.in \in { VB2_ERROR("NV_WRITE"), VB2_ERROR("UNKNOWN") }

InRecovery == "RECOVERY_MODE" \in old.flags

\* C18: when vb2ex_commit_data returns SECDATA_FIRMWARE_WRITE or
\* SECDATA_KERNEL_WRITE outside recovery mode, vb2_commit_data calls
\* vb2api_fail with reason RW_TPM_W_ERROR, calls vb2ex_commit_data exactly
\* once more and returns the original error; in recovery mode it records
\* nothing, does not call the hook again and returns success.
C18_SecdataWriteFailure ==
  /\ (SecdataWriteFailed /\ ~InRecovery) =>
       /\ call.fails = << << VB2_RECOVERY("RW_TPM_W_ERROR"), U8(call.in) >> >>
       /\ Engine = vb2api_fail(old, VB2_RECOVERY("RW_TPM_W_ERROR"), U8(call.in))
       /\ call.ext = << "vb2ex_commit_data", "vb2ex_commit_data" >>
       /\ call.rv = call.in
  /\ (SecdataWriteFailed /\ InRecovery) =>
       /\ call.fails = << >>
       /\ Engine = old
       /\ call.ext = << "vb2ex_commit_data" >>
       /\ call.rv = VB2_SUCCESS

\* no slot was chosen: the failure becomes the recovery request
C18_Witness ==
  /\ SecdataWriteFailed
  /\ ~InRecovery
  /\ call.in = VB2_ERROR("SECDATA_KERNEL_WRITE")
  /\ old.nv.recovery_request = 0
  /\ nv.recovery_request = VB2_RECOVERY("RW_TPM_W_ERROR")
  /\ nv.recovery_subcode = U8(VB2_ERROR("SECDATA_KERNEL_WRITE"))
  /\ Len(call.ext) = 2
  /\ call.rv = VB2_ERROR("SECDATA_KERNEL_WRITE")

\* C19: when vb2ex_commit_data returns NV_WRITE or a code vb2_commit_data
\* does not know, outside recovery mode the system halts: vb2_commit_data
\* does not return, vb2api_fail is not called and the hook is not called
\* again; in recovery mode vb2_commit_data returns VB2_SUCCESS.
C19_NvWriteFailure ==
  /\ (NvWriteFailed /\ ~InRecovery) =>
       /\ call.rv = VB2_DIE
       /\ pc = "halted"
       /\ call.fails = << >>
       /\ Engine = old
       /\ call.ext = << "vb2ex_commit_data" >>
  /\ (NvWriteFailed /\ InRecovery) =>
       /\ call.rv = VB2_SUCCESS
       /\ pc # "halted"
       /\ call.fails = << >>

C19_Witness ==
  /\ NvWriteFailed
  /\ ~InRecovery
  /\ call.in = VB2_ERROR("UNKNOWN")
  /\ pc = "halted"

(***************************************************************************)
(* Boot path dispatch in VbSelectAndLoadKernel                             *)
(***************************************************************************)
SelectKernelReturned == call.op = "VbSelectAndLoadKernel"

BootPaths ==
  { "VbBootRecovery", "VbBootDiagnostic", "VbBootDeveloper", "VbBootNormal" }

IsBootPath(f) == f \in BootPaths

\* the boot paths the call ran, in order
PathsRun == SelectSeq(call.ext, IsBootPath)

\* the boot mode vb2_kernel_setup gives the context
RecoveryBoot == "RECOVERY_MODE" \in old.flags \/ old.sd.recovery_reason # 0
DeveloperBoot ==
  "DEVELOPER_MODE" \in old.flags \/ "DEV_MODE_ENABLED" \in old.sd.flags

\* a step before the boot path selection returned an error
Phase1Failed ==
  vb2api_kernel_phase1(vb2_kernel_setup(old), gbb, call.in.phase1).rv
    # VB2_SUCCESS
SyncFailed ==
  ~RecoveryBoot /\ (call.in.sync # "ok" \/ old.nv.battery_cutoff_request # 0)

\* the boot path the priority order gives; a recovery boot that was only
\* asked for memory retraining reboots without running a path
PathDue ==
  IF RecoveryBoot
    THEN IF old.sd.recovery_reason = VB2_RECOVERY("TRAIN_AND_REBOOT")
           THEN << >> ELSE << "VbBootRecovery" >>
  ELSE IF call.in.DIAGNOSTIC_UI /\ old.nv.diag_request # 0
    THEN << "VbBootDiagnostic" >>
  ELSE IF DeveloperBoot THEN << "VbBootDeveloper" >>
  ELSE << "VbBootNormal" >>

\* C20: a call of VbSelectAndLoadKernel runs at most one boot path: none
\* when kernel_phase1, EC sync, aux firmware sync or the battery cut-off
\* returned an error, otherwise the one the priority order recovery,
\* diagnostic (DIAGNOSTIC_UI and nv.diag_request), developer, normal gives;
\* in recovery mode neither the normal nor the developer path runs.
C20_BootPathDispatch ==
  SelectKernelReturned =>
    /\ Len(PathsRun) <= 1
    /\ (Phase1Failed \/ SyncFailed) => PathsRun = << >>
    /\ ~(Phase1Failed \/ SyncFailed) => PathsRun = PathDue
    /\ RecoveryBoot =>
         \A i \in 1..Len(call.ext) :
           call.ext[i] \notin { "VbBootNormal", "VbBootDeveloper" }

\* a diagnostic request in developer mode: the diagnostic path runs
C20_Witness ==
  /\ SelectKernelReturned
  /\ ~RecoveryBoot
  /\ DeveloperBoot
  /\ call.in.DIAGNOSTIC_UI
  /\ old.nv.diag_request # 0
  /\ PathsRun = << "VbBootDiagnostic" >>
  /\ nv.diag_request = 0


(***************************************************************************)
(* C21: phase-order preconditions                                          *)
(***************************************************************************)
PreambleReturned == call.op = "load_fw_preamble"

Phase1Returned == call.op = "kernel_phase1"

KernelSizeReturned == call.op = "get_kernel_size"

KernelDataReturned == call.op = "verify_kernel_data"

NoDataKey == old.sd.data_key_size = 0

NoPreamble == old.sd.preamble_size = 0

\* the work buffer has room for the digest context
DigestContextFits ==
  vb2_workbuf_alloc(vb2_workbuf_from_ctx(old.sd), SizeofDigestContext).ok

\* C21 as stated: each missing prerequisite alone decides the error that
\* is returned: vb2_load_fw_preamble without a data key returns
\* FW_PREAMBLE2_DATA_KEY, vb2api_kernel_phase1 outside recovery without a
\* preamble returns API_KPHASE1_PREAMBLE, vb2api_get_kernel_size and
\* vb2api_verify_kernel_data without a preamble return their PREAMBLE
\* errors, vb2api_verify_kernel_data with another size than the body
\* signature's returns API_VERIFY_KDATA_SIZE and without a data key
\* returns API_VERIFY_KDATA_KEY.
C21_Original ==
  /\ PreambleReturned /\ NoDataKey
       => call.rv = VB2_ERROR("FW_PREAMBLE2_DATA_KEY")
  /\ Phase1Returned /\ "RECOVERY_MODE" \notin old.flags /\ NoPreamble
       => call.rv = VB2_ERROR("API_KPHASE1_PREAMBLE")
  /\ KernelSizeReturned /\ NoPreamble
       => call.rv = VB2_ERROR("API_GET_KERNEL_SIZE_PREAMBLE")
  /\ KernelDataReturned /\ NoPreamble
       => call.rv = VB2_ERROR("API_VERIFY_KDATA_PREAMBLE")
  /\ KernelDataReturned /\ call.in.size # KernelBodySize
       => call.rv = VB2_ERROR("API_VERIFY_KDATA_SIZE")
  /\ KernelDataReturned /\ NoDataKey
       => call.rv = VB2_ERROR("API_VERIFY_KDATA_KEY")

\* C21, amended: an operation whose prerequisite artifact is missing never
\* succeeds and records nothing, and the error it returns is that of the
\* first check that fails.  vb2_load_fw_preamble without a data key returns
\* FW_PREAMBLE2_DATA_KEY.  vb2api_kernel_phase1 outside recovery without a
\* preamble returns API_KPHASE1_PREAMBLE once both secure-storage spaces
\* were initialised (an initialisation failure is returned first) and
\* records no kernel key.  vb2api_get_kernel_size and
\* vb2api_verify_kernel_data without a preamble return their PREAMBLE
\* errors.  With a preamble, vb2api_verify_kernel_data returns
\* API_VERIFY_KDATA_SIZE for another size than the body signature's; with
\* the right size and no data key it returns API_VERIFY_KDATA_KEY when the
\* work buffer holds a digest context and API_VERIFY_KDATA_WORKBUF when it
\* does not.
C21_PhaseOrder ==
  /\ PreambleReturned /\ NoDataKey
       => /\ call.rv = VB2_ERROR("FW_PREAMBLE2_DATA_KEY")
          /\ Engine = old
  /\ Phase1Returned /\ "RECOVERY_MODE" \notin old.flags /\ NoPreamble
       => /\ call.rv # VB2_SUCCESS
          /\ call.in.fault \notin { "secdata_kernel_init", "secdata_fwmp_init" }
               => call.rv = VB2_ERROR("API_KPHASE1_PREAMBLE")
          /\ sd.kernel_key_size = 0
          /\ sd.kernel_key_offset = "none"
  /\ KernelSizeReturned /\ NoPreamble
       => /\ call.rv = VB2_ERROR("API_GET_KERNEL_SIZE_PREAMBLE")
          /\ Engine = old
  /\ KernelDataReturned /\ NoPreamble
       => /\ call.rv = VB2_ERROR("API_VERIFY_KDATA_PREAMBLE")
          /\ Engine = old
  /\ KernelDataReturned /\ ~NoPreamble /\ call.in.size # KernelBodySize
       => /\ call.rv = VB2_ERROR("API_VERIFY_KDATA_SIZE")
          /\ Engine = old
  /\ KernelDataReturned /\ ~NoPreamble /\ call.in.size = KernelBodySize
       /\ NoDataKey
       => /\ call.rv = IF DigestContextFits
                         THEN VB2_ERROR("API_VERIFY_KDATA_KEY")
                         ELSE VB2_ERROR("API_VERIFY_KDATA_WORKBUF")
          /\ Engine = old

\* the kernel body is checked with a preamble and no data key: the size
\* matches, the digest context fits and the missing key is reported
C21_Witness ==
  /\ KernelDataReturned
  /\ ~NoPreamble
  /\ NoDataKey
  /\ call.in.size = KernelBodySize
  /\ DigestContextFits
  /\ call.rv = VB2_ERROR("API_VERIFY_KDATA_KEY")


(***************************************************************************)
(* C22: work-buffer exhaustion                                             *)
(***************************************************************************)
KeyblockReturned == call.op = "load_fw_keyblock"

\* what remained of the work buffer when the operation was entered
Room == old.sd.workbuf_size - old.sd.workbuf_used

\* the rounded sizes the keyblock load asks for: the root key, the root key
\* and the keyblock header, the root key and the keyblock
RootKeyNeed == vb2_wb_round_up(gbb.rootkey_size)

KeyblockHeaderNeed == RootKeyNeed + vb2_wb_round_up(SizeofKeyblock)

KeyblockNeed == RootKeyNeed + vb2_wb_round_up(call.in.keyblock_size)

\* the rounded sizes the preamble load asks for
PreambleHeaderNeed == vb2_wb_round_up(SizeofFwPreamble)

PreambleNeed == vb2_wb_round_up(call.in.preamble_size)

\* C22: an allocation fails exactly when the rounded size exceeds what
\* remains of the work buffer and succeeds when exactly the rounded size
\* remains: vb2_load_fw_keyblock returns FW_KEYBLOCK_WORKBUF_ROOT_KEY
\* exactly when the root key does not fit, FW_KEYBLOCK_WORKBUF_HEADER
\* exactly when the root key was read and the keyblock header does not fit
\* after it, FW_KEYBLOCK_WORKBUF exactly when the header was read and the
\* keyblock does not fit after the root key; vb2_load_fw_preamble returns
\* FW_PREAMBLE2_WORKBUF_HEADER or FW_PREAMBLE2_WORKBUF likewise.
C22_WorkbufExhaustion ==
  /\ KeyblockReturned =>
       /\ call.rv = VB2_ERROR("FW_KEYBLOCK_WORKBUF_ROOT_KEY")
            <=> RootKeyNeed > Room
       /\ call.rv = VB2_ERROR("FW_KEYBLOCK_WORKBUF_HEADER")
            <=> /\ RootKeyNeed <= Room
                /\ call.in.fault \notin { "read_rootkey", "unpack_rootkey" }
                /\ KeyblockHeaderNeed > Room
       /\ call.rv = VB2_ERROR("FW_KEYBLOCK_WORKBUF")
            <=> /\ KeyblockHeaderNeed <= Room
                /\ call.in.fault \notin { "read_rootkey", "unpack_rootkey",
                                          "read_kb_header" }
                /\ KeyblockNeed > Room
  /\ PreambleReturned /\ ~NoDataKey =>
       /\ call.rv = VB2_ERROR("FW_PREAMBLE2_WORKBUF_HEADER")
            <=> /\ call.in.fault # "unpack_data_key"
                /\ PreambleHeaderNeed > Room
       /\ call.rv = VB2_ERROR("FW_PREAMBLE2_WORKBUF")
            <=> /\ PreambleHeaderNeed <= Room
                /\ call.in.fault \notin { "unpack_data_key", "read_pre_header" }
                /\ PreambleNeed > Room

\* exactly the rounded size of the preamble remained and the preamble was
\* loaded
C22_Witness ==
  /\ PreambleReturned
  /\ Room = PreambleNeed
  /\ call.rv = VB2_SUCCESS
  /\ sd.preamble_size = call.in.preamble_size
  /\ sd.workbuf_used = sd.workbuf_size


(***************************************************************************)
(* C23: work buffer watermark and recorded offsets                         *)
(***************************************************************************)
\* the data key and the preamble lie below the watermark, the watermark
\* inside the work buffer, and an offset is recorded with its size only
OffsetsInsideUsed(s) ==
  /\ s.data_key_offset # 0 => s.data_key_size # 0
  /\ s.preamble_offset # 0 => s.preamble_size # 0
  /\ s.kernel_key_offset # "none" => s.kernel_key_size # 0
  /\ s.data_key_offset + s.data_key_size <= s.workbuf_used
  /\ s.preamble_offset + s.preamble_size <= s.workbuf_used
  /\ s.workbuf_used <= s.workbuf_size

\* C23: after a successful vb2_load_fw_keyblock the data key lies at the
\* watermark of entry, where the root key was, and the watermark is the
\* rounded end of the data key; after a successful vb2_load_fw_preamble the
\* preamble lies at the watermark of entry and the watermark is its rounded
\* end; in every state an offset is non-zero only with a non-zero size and
\* offset + size <= workbuf_used <= workbuf_size.
C23_WatermarkAndOffsets ==
  /\ KeyblockReturned /\ call.rv = VB2_SUCCESS
       => /\ sd.data_key_offset = old.sd.workbuf_used
          /\ sd.data_key_size = call.in.data_key_size
          /\ sd.workbuf_used
               = vb2_wb_round_up(sd.data_key_offset + sd.data_key_size)
  /\ PreambleReturned /\ call.rv = VB2_SUCCESS
       => /\ sd.preamble_offset = old.sd.workbuf_used
          /\ sd.preamble_size = call.in.preamble_size
          /\ sd.workbuf_used
               = vb2_wb_round_up(sd.preamble_offset + sd.preamble_size)
  /\ OffsetsInsideUsed(sd)

\* the preamble was loaded right after the data key of the same boot
C23_Witness ==
  /\ PreambleReturned
  /\ call.rv = VB2_SUCCESS
  /\ sd.data_key_offset = WorkbufUsedAtBoot
  /\ sd.preamble_offset = vb2_wb_round_up(sd.data_key_offset + sd.data_key_size)
  /\ sd.workbuf_used = sd.preamble_offset + vb2_wb_round_up(sd.preamble_size)
  /\ sd.workbuf_used < sd.workbuf_size


(***************************************************************************)
(* C24: secure storage initialisation in vb2api_kernel_phase1              *)
(***************************************************************************)
SecdataInitFaults == { "secdata_kernel_init", "secdata_fwmp_init" }

\* the recovery reason and the error of a failing initialisation
SecdataInitReason(fault) ==
  IF fault = "secdata_kernel_init" THEN VB2_RECOVERY("SECDATA_KERNEL_INIT")
  ELSE VB2_RECOVERY("SECDATA_FWMP_INIT")

SecdataInitError(fault) ==
  IF fault = "secdata_kernel_init" THEN VB2_ERROR("SECDATA_KERNEL_CRC")
  ELSE VB2_ERROR("SECDATA_FWMP_CRC")

Phase1InitFailed == Phase1Returned /\ call.in.fault \in SecdataInitFaults

NoKernelKey(s) == s.kernel_key_offset = "none" /\ s.kernel_key_size = 0

\* C24: outside recovery mode a failure of the secdata_kernel or the
\* secdata_fwmp initialisation is reported with vb2api_fail, with reason
\* SECDATA_KERNEL_INIT or SECDATA_FWMP_INIT and the low 8 bits of the error
\* as subcode (they reach NV when no slot was chosen and no request is
\* pending), the error is returned and no kernel key is selected; in
\* recovery mode both failures are ignored: nothing is reported and phase 1
\* goes on to record the recovery key.
C24_SecdataInitFailure ==
  /\ Phase1InitFailed /\ "RECOVERY_MODE" \notin old.flags
       => /\ call.rv = SecdataInitError(call.in.fault)
          /\ call.fails = << << SecdataInitReason(call.in.fault),
                                call.rv % 256 >> >>
          /\ NoKernelKey(sd)
          /\ "CHOSE_SLOT" \notin old.sd.status /\ old.nv.recovery_request = 0
               => /\ nv.recovery_request = SecdataInitReason(call.in.fault)
                  /\ nv.recovery_subcode = call.rv % 256
  /\ Phase1InitFailed /\ "RECOVERY_MODE" \in old.flags
       => /\ call.rv = VB2_SUCCESS
          /\ call.fails = << >>
          /\ nv = old.nv
          /\ sd.kernel_key_offset = "GBB_RECOVERY_KEY"

\* secdata_fwmp failed to initialise outside recovery mode and the request
\* reached NV
C24_Witness ==
  /\ Phase1InitFailed
  /\ call.in.fault = "secdata_fwmp_init"
  /\ "RECOVERY_MODE" \notin old.flags
  /\ old.nv.recovery_request = 0
  /\ nv.recovery_request = VB2_RECOVERY("SECDATA_FWMP_INIT")
  /\ nv.recovery_subcode = VB2_ERROR("SECDATA_FWMP_CRC") % 256
  /\ call.rv = VB2_ERROR("SECDATA_FWMP_CRC")


(***************************************************************************)
(* C25: the kernel verification key of vb2api_kernel_phase1                *)
(***************************************************************************)
\* manual recovery is allowed: vb2_allow_recovery on the state at entry
ManualRecoveryAllowed ==
  \/ "FORCE_MANUAL_RECOVERY" \in gbb.flags
  \/ call.in.ec_trusted /\ "MANUAL_RECOVERY" \in old.sd.flags

RecoveryKeyUnreadable ==
  /\ Phase1Returned
  /\ "RECOVERY_MODE" \in old.flags
  /\ call.in.fault = "read_recovery_key"

\* C25: the kernel key vb2api_kernel_phase1 records in recovery mode is the
\* GBB recovery key and never the kernel subkey of the firmware preamble;
\* outside recovery mode it is the kernel subkey inside the loaded firmware
\* preamble; when the recovery key cannot be read, phase 1 halts if manual
\* recovery is allowed and otherwise returns success with no kernel key
\* recorded.
C25_KernelKeySelection ==
  /\ Phase1Returned /\ "RECOVERY_MODE" \in old.flags
       => /\ sd.kernel_key_offset # "FW_PREAMBLE_KERNEL_SUBKEY"
          /\ call.in.fault # "read_recovery_key"
               => /\ call.rv = VB2_SUCCESS
                  /\ sd.kernel_key_offset = "GBB_RECOVERY_KEY"
                  /\ sd.kernel_key_size = call.in.key_size
  /\ Phase1Returned /\ "RECOVERY_MODE" \notin old.flags
       => /\ sd.kernel_key_offset # "GBB_RECOVERY_KEY"
          /\ call.rv = VB2_SUCCESS
               => /\ sd.kernel_key_offset = "FW_PREAMBLE_KERNEL_SUBKEY"
                  /\ sd.kernel_key_size = call.in.key_size
                  /\ old.sd.preamble_size # 0
  /\ RecoveryKeyUnreadable
       => /\ ManualRecoveryAllowed => call.rv = VB2_DIE
          /\ ~ManualRecoveryAllowed
               => call.rv = VB2_SUCCESS /\ NoKernelKey(sd)

\* the recovery key cannot be read in a manual recovery boot: phase 1 halts
C25_Witness ==
  /\ RecoveryKeyUnreadable
  /\ ManualRecoveryAllowed
  /\ call.rv = VB2_DIE
  /\ pc = "stopped"


(***************************************************************************)
(* C26: the effective mode of vb2_check_dev_switch                         *)
(***************************************************************************)
DevSwitchReturned == call.op = "check_dev_switch" /\ call.rv # VB2_DIE

ValidSecdata == "SECDATA_FIRMWARE_INIT" \in old.sd.status

\* the virtual switch is still on after the disable request, honoured with
\* initialised secdata_firmware only, and the caller's flag; or the GBB
\* forces it on
EffectiveDev ==
  \/ /\ "DEV_MODE" \in SecdataFirmwareFlags(old)
     /\ ~(ValidSecdata /\ old.nv.disable_dev_request # 0)
     /\ "DISABLE_DEVELOPER_MODE" \notin old.flags
  \/ "FORCE_DEV_SWITCH_ON" \in gbb.flags

DevModeEnabled == "DEV_MODE_ENABLED" \in sd.flags /\ "DEVELOPER_MODE" \in flags

DevBootOptionsOff ==
  /\ nv.dev_boot_usb = 0
  /\ nv.dev_boot_legacy = 0
  /\ nv.dev_boot_signed_only = 0
  /\ nv.dev_default_boot = 0

\* C26 as stated: developer mode is enabled exactly when the switch is
\* effectively on, LAST_BOOT_DEVELOPER in secdata_firmware is that result
\* whenever vb2_check_dev_switch returns, and in normal mode the developer
\* boot options of NV are 0.
C26_Original ==
  DevSwitchReturned =>
    /\ DevModeEnabled <=> EffectiveDev
    /\ "LAST_BOOT_DEVELOPER" \in secdata.flags <=> EffectiveDev
    /\ ~EffectiveDev => DevBootOptionsOff

\* C26, amended: developer mode is enabled exactly when the switch is
\* effectively on, and in normal mode the developer boot options of NV are
\* 0 (both also when the function fails); LAST_BOOT_DEVELOPER in
\* secdata_firmware is that result when the function returns success with
\* initialised secdata_firmware; when the TPM owner clear fails, or
\* secdata_firmware is not initialised, the stored flags keep their value.
C26_EffectiveDevMode ==
  DevSwitchReturned =>
    /\ DevModeEnabled <=> EffectiveDev
    /\ ~EffectiveDev => DevBootOptionsOff
    /\ ValidSecdata => nv.disable_dev_request = 0
    /\ ValidSecdata /\ call.rv = VB2_SUCCESS
         => ("LAST_BOOT_DEVELOPER" \in secdata.flags <=> EffectiveDev)
    /\ ~ValidSecdata \/ call.rv # VB2_SUCCESS
         => secdata = old.secdata

\* the disable request ends developer mode: the boot is a normal one, the
\* request and the developer boot options are cleared, LAST_BOOT_DEVELOPER
\* is cleared
C26_Witness ==
  /\ DevSwitchReturned
  /\ call.rv = VB2_SUCCESS
  /\ old.secdata.flags = { "DEV_MODE", "LAST_BOOT_DEVELOPER" }
  /\ old.nv.disable_dev_request = 1
  /\ old.nv.dev_boot_usb = 1
  /\ ~DevModeEnabled
  /\ DevBootOptionsOff
  /\ secdata.flags = {}


(***************************************************************************)
(* C27: the TPM owner is cleared before a dev mode transition is saved     *)
(***************************************************************************)
\* the secdata_firmware flags vb2_check_dev_switch read, and those it
\* computes for this boot
OldSecdataFlags == SecdataFirmwareFlags(old)

NewSecdataFlags ==
  LET disable == \/ ValidSecdata /\ old.nv.disable_dev_request # 0
                 \/ "DISABLE_DEVELOPER_MODE" \in old.flags
      kept == IF disable THEN OldSecdataFlags \ {"DEV_MODE"}
              ELSE OldSecdataFlags
  IN  IF EffectiveDev THEN kept \cup {"LAST_BOOT_DEVELOPER"}
      ELSE kept \ {"LAST_BOOT_DEVELOPER"}

DevTransition == DevSwitchReturned /\ NewSecdataFlags # OldSecdataFlags

\* the positions of the calls of f in the call record
CallsOf(f) == { i \in 1..Len(call.ext) : call.ext[i] = f }

ClearFailed == ValidSecdata /\ call.in.clear = "fail"

\* C27: when the secdata_firmware flags change, vb2ex_tpm_clear_owner is
\* called exactly once and before the flags are saved; when the clear fails
\* with initialised secdata_firmware the flags are not saved, vb2api_fail
\* is called with TPM_CLEAR_OWNER and the low 8 bits of the error (they
\* reach NV when no request is pending) and the error is returned; when the
\* flags do not change the TPM owner is not cleared and secdata is not
\* written.
C27_TpmClearOrdering ==
  /\ DevTransition =>
       /\ Cardinality(CallsOf("vb2ex_tpm_clear_owner")) = 1
       /\ \A i \in CallsOf("vb2ex_tpm_clear_owner"),
             j \in CallsOf("vb2_secdata_firmware_set") : i < j
  /\ DevTransition /\ ClearFailed =>
       /\ CallsOf("vb2_secdata_firmware_set") = {}
       /\ secdata = old.secdata
       /\ call.rv = VB2_ERROR("EX_TPM_CLEAR_OWNER")
       /\ call.fails = << << VB2_RECOVERY("TPM_CLEAR_OWNER"), call.rv % 256 >> >>
       /\ old.nv.recovery_request = 0
            => /\ nv.recovery_request = VB2_RECOVERY("TPM_CLEAR_OWNER")
               /\ nv.recovery_subcode = call.rv % 256
  /\ DevTransition /\ ~ClearFailed =>
       /\ call.rv = VB2_SUCCESS
       /\ Cardinality(CallsOf("vb2_secdata_firmware_set")) = 1
       /\ ValidSecdata => secdata.flags = NewSecdataFlags
  /\ DevSwitchReturned /\ ~DevTransition =>
       /\ call.ext = << >>
       /\ secdata = old.secdata
       /\ call.rv = VB2_SUCCESS

\* the switch to developer mode takes effect and the owner clear fails: the
\* stored flags stay without LAST_BOOT_DEVELOPER and recovery is requested
C27_Witness ==
  /\ DevTransition
  /\ ClearFailed
  /\ old.secdata.flags = { "DEV_MODE" }
  /\ secdata.flags = { "DEV_MODE" }
  /\ call.ext = << "vb2ex_tpm_clear_owner" >>
  /\ nv.recovery_request = VB2_RECOVERY("TPM_CLEAR_OWNER")
  /\ call.rv = VB2_ERROR("EX_TPM_CLEAR_OWNER")


(***************************************************************************)
(* C28: the tries of a slot run out over successive boots                  *)
(***************************************************************************)
\* the run of boots so far
Run == call.in

TryBootReturned == call.op = "try_boot"

\* every boot of the run so far had, or had not, NOFAIL_BOOT
AllBoots(nofail) == \A i \in 1..Len(Run.nofail) : Run.nofail[i] = nofail

\* C28: a run of boots starts with try_next = s and try_count = n >= 1 and
\* no boot reports success or failure.  Without NOFAIL_BOOT, slot s is
\* selected on exactly the first n boots and slot 1-s on every later boot,
\* and boot n+1 rewrites try_next to 1-s.  With NOFAIL_BOOT on every boot
\* the try count never decreases and slot s is selected on every boot.
C28_TryCountExhaustion ==
  TryBootReturned /\ Run.clean =>
    /\ AllBoots(FALSE) =>
         /\ \A i \in 1..Len(Run.slots) :
              Run.slots[i] = IF i <= Run.count THEN Run.next ELSE 1 - Run.next
         /\ nv.try_next = IF Len(Run.slots) <= Run.count THEN Run.next
                          ELSE 1 - Run.next
         /\ Len(Run.slots) = Run.count + 1 => old.nv.try_next = Run.next
    /\ AllBoots(TRUE) =>
         /\ \A i \in 1..Len(Run.slots) : Run.slots[i] = Run.next
         /\ nv.try_count = Run.count
         /\ nv.try_next = Run.next

\* two tries of slot s were used up, the third boot fell back to the other
\* slot and the fourth stays on it
C28_Witness ==
  /\ TryBootReturned
  /\ Run.clean
  /\ AllBoots(FALSE)
  /\ Run.count = 2
  /\ Run.slots = << Run.next, Run.next, 1 - Run.next, 1 - Run.next >>
  /\ nv.try_next = 1 - Run.next


(***************************************************************************)
(* C29: both slots failed on successive boots                              *)
(***************************************************************************)
TryFailReturned == call.op = "try_fail"

\* the boot that failed, and the slot it ran
ThisBoot == Len(Run.slots)

ThisSlot == Run.slots[ThisBoot]

\* vb2api_fail wrote its reason and subcode to NV
RequestWritten ==
  /\ old.nv.recovery_request = 0
  /\ nv.recovery_request = call.fails[1][1]
  /\ nv.recovery_subcode = call.fails[1][2]

\* the other slot was tried on the previous boot and failed
OtherSlotFailedLastBoot ==
  /\ old.sd.last_fw_slot = 1 - old.sd.fw_slot
  /\ old.sd.last_fw_result = "FAILURE"

\* C29: vb2api_fail after slot choice writes a recovery request exactly
\* when the other slot was tried on the previous boot with result FAILURE
\* and no request is pending, and leaves the request alone otherwise; so a
\* failure on the boot after a failed boot runs on the other slot and
\* requests recovery, and a failure after a boot that did not fail only
\* uses up the tries and retargets try_next to the other slot.
C29_BothSlotsFailed ==
  TryFailReturned /\ "CHOSE_SLOT" \in old.sd.status =>
    /\ RequestWritten
         <=> OtherSlotFailedLastBoot /\ old.nv.recovery_request = 0
    /\ ~RequestWritten => /\ nv.recovery_request = old.nv.recovery_request
                          /\ nv.recovery_subcode = old.nv.recovery_subcode
    /\ ThisBoot >= 2 /\ ThisBoot - 1 \in Run.failed =>
         /\ ThisSlot = 1 - Run.slots[ThisBoot - 1]
         /\ nv.recovery_request # 0
         /\ old.nv.recovery_request = 0 => RequestWritten
    /\ ThisBoot >= 2 /\ ThisBoot - 1 \notin Run.failed =>
         /\ ~RequestWritten
         /\ nv.try_next = 1 - ThisSlot
         /\ nv.try_count = 0
         /\ nv.fw_result = "FAILURE"

\* slot s failed on the first boot without a request, the other slot on
\* the second, and recovery is requested
C29_Witness ==
  /\ TryFailReturned
  /\ ThisBoot = 2
  /\ Run.failed = { 1, 2 }
  /\ Run.slots[1] = 1 - Run.slots[2]
  /\ old.nv.recovery_request = 0
  /\ RequestWritten
  /\ nv.recovery_request # 0


(***************************************************************************)
(* C30: a recovery boot does not ask for recovery again                    *)
(***************************************************************************)
\* VbSelectAndLoadKernel ran in recovery mode and came to the boot path
\* selection
RecoverySelected == SelectKernelReturned /\ RecoveryBoot /\ ~Phase1Failed

RetrainOnly == old.sd.recovery_reason = VB2_RECOVERY("TRAIN_AND_REBOOT")

\* the recovery path may look for a kernel on removable disks
ManualRecovery ==
  vb2_allow_recovery(vb2_kernel_setup(old), gbb, call.in.phase1.ec_trusted)

\* C30: when VbSelectAndLoadKernel runs in recovery mode and phase 1
\* succeeded, the recovery request and subcode of NV are cleared before the
\* recovery path runs: a call that records no failure returns with
\* nv.recovery_request = 0, and with a subcode that is 0 or, after the
\* screen of a recovery that is not a manual one, the reason of this boot.
\* When the reason is TRAIN_AND_REBOOT it returns REBOOT_REQUIRED with both
\* fields 0 and runs neither the recovery path nor a kernel load.
C30_NoRecoveryLoop ==
  /\ RecoverySelected /\ call.fails = << >> =>
       /\ nv.recovery_request = VB2_RECOVERY_NOT_REQUESTED
       /\ nv.recovery_subcode =
            IF RetrainOnly \/ ManualRecovery THEN VB2_RECOVERY_NOT_REQUESTED
            ELSE old.sd.recovery_reason
  /\ RecoverySelected /\ RetrainOnly =>
       /\ call.rv = VB2_ERROR("REBOOT_REQUIRED")
       /\ \A i \in 1..Len(call.ext) :
            call.ext[i] \notin { "VbBootRecovery", "VbTryLoadKernel" }
  /\ RecoverySelected /\ ~RetrainOnly =>
       PathsRun = << "VbBootRecovery" >>

\* a recovery boot with a request and a subcode in NV shows the screen of
\* a recovery that is not manual: the request is gone, the subcode is the
\* reason of this boot
C30_Witness ==
  /\ RecoverySelected
  /\ ~RetrainOnly
  /\ ~ManualRecovery
  /\ old.nv.recovery_request # 0
  /\ old.nv.recovery_subcode # 0
  /\ old.nv.recovery_subcode # old.sd.recovery_reason
  /\ nv.recovery_request = 0
  /\ nv.recovery_subcode = old.sd.recovery_reason


(***************************************************************************)
(* C31: the commit is the last step of VbSelectAndLoadKernel               *)
(***************************************************************************)
\* VbSelectAndLoadKernel came back to its caller
SelectKernelCameBack == SelectKernelReturned /\ call.rv # VB2_DIE

\* the call up to its exit label
BeforeExit ==
  AfterPhase1(vb2api_kernel_phase1(vb2_kernel_setup(old), gbb, call.in.phase1),
              gbb, call.in)

\* the commit of the exit label
ExitCommit(r) == vb2_commit_data(r.e, call.in.commit)

KparamsFilled ==
  \E i \in 1..Len(call.ext) : call.ext[i] = "vb2_kernel_fill_kparams"

\* what was called from the exit label on, given the result r before it
ExitCalls(r) == SubSeq(call.ext, Len(r.ext) + 1, Len(call.ext))

IsCommitHook(f) == f = "vb2ex_commit_data"

CommitIsLast(r) ==
  /\ SubSeq(call.ext, 1, Len(r.ext)) = r.ext
  /\ ExitCalls(r) =
       (IF r.rv = VB2_SUCCESS THEN << "vb2_kernel_fill_kparams" >> ELSE << >>)
         \o ExitCommit(r).ext
  /\ ExitCommit(r).ext # << >>
  /\ \A i \in 1..Len(ExitCommit(r).ext) : IsCommitHook(ExitCommit(r).ext[i])

FirstError(r) ==
  call.rv = IF r.rv # VB2_SUCCESS THEN r.rv ELSE ExitCommit(r).rv

\* C31: every call of VbSelectAndLoadKernel that comes back, an early error
\* of kernel phase 1, of the EC sync or of the battery cut-off included,
\* ran vb2_commit_data last, after everything the boot path called; it
\* returns the error before the exit label if there is one and the result
\* of the commit otherwise; the output parameters are filled in exactly
\* when the result before the exit label is success, so always when the
\* call returns success.
C31_CommitIsLast ==
  SelectKernelCameBack =>
    /\ CommitIsLast(BeforeExit)
    /\ FirstError(BeforeExit)
    /\ KparamsFilled <=> BeforeExit.rv = VB2_SUCCESS
    /\ call.rv = VB2_SUCCESS => KparamsFilled

\* an EC sync error comes back after the commit, with nothing filled in
C31_Witness ==
  /\ SelectKernelCameBack
  /\ call.in.sync = "ec_sync"
  /\ call.rv = VB2_ERROR("EC_REBOOT_TO_RO_REQUIRED")
  /\ call.ext = << "vb2api_ec_sync", "vb2ex_commit_data" >>
  /\ ~KparamsFilled


(***************************************************************************)
(* C32: the broken screen never boots                                      *)
(***************************************************************************)
RecoveryUiReturned == call.op = "recovery_ui"

\* manual recovery was not allowed when the recovery UI started
BrokenScreenShown ==
  RecoveryUiReturned /\ ~vb2_allow_recovery(old, gbb, call.in.ec_trusted)

CalledInUi(f) == \E i \in 1..Len(call.ext) : call.ext[i] = f

\* some turn of the user asked for the diagnostic mode
DiagnosticKeyTurn ==
  \E i \in 1..Len(call.in.turns) :
    IsDiagnosticKey(call.in, call.in.turns[i].key)

\* C32: when vb2_allow_recovery is false, recovery_ui stores
\* sd.recovery_reason in nv.recovery_subcode and leaves nv.recovery_request
\* alone, commits before it reads a key, never calls VbTryLoadKernel, and
\* comes back only with SHUTDOWN_REQUESTED or REBOOT_REQUIRED (the latter
\* after a diagnostic key, with nv.diag_request set), never with success;
\* until then it waits.
C32_BrokenScreenNeverBoots ==
  BrokenScreenShown =>
    /\ nv.recovery_subcode = old.sd.recovery_reason
    /\ nv.recovery_request = old.nv.recovery_request
    /\ call.ext # << >>
    /\ \A i \in 1..Len(call.ext) : call.ext[i] = "vb2ex_commit_data"
    /\ ~CalledInUi("VbTryLoadKernel")
    /\ shared = old.shared
    /\ call.rv \in { VB2_ERROR("SHUTDOWN_REQUESTED"),
                     VB2_ERROR("REBOOT_REQUIRED"), VB2_WAITING }
    /\ call.rv = VB2_ERROR("REBOOT_REQUIRED") =>
         DiagnosticKeyTurn /\ nv.diag_request = 1

\* a recovery image is there and the user presses Ctrl+D and ENTER, yet the
\* broken screen only saves the reason and waits for the shutdown
C32_Witness ==
  /\ BrokenScreenShown
  /\ call.in.turns = << UiTurn("NONE", TRUE, FALSE, FALSE, RecoveryImage),
                        UiTurn("CTRL_D", TRUE, FALSE, FALSE, << >>),
                        UiTurn("NONE", TRUE, FALSE, TRUE, << >>) >>
  /\ old.nv.recovery_subcode = 0
  /\ nv.recovery_subcode = VB2_RECOVERY("FW_KEYBLOCK")
  /\ call.rv = VB2_ERROR("SHUTDOWN_REQUESTED")


(***************************************************************************)
(* C33: the reason of the broken screen survives to the manual recovery    *)
(***************************************************************************)
RecoveryChecked == call.op = "check_recovery"

\* the recovery switch is pressed at this boot
ManualBoot == "FORCE_RECOVERY_MODE" \in old.flags

\* the boot before ended on the broken screen and nothing asked for
\* recovery since
AfterBrokenScreen ==
  call.in.screen = "broken" /\ ~call.in.requested

\* C33: a recovery boot that was not manual saves its reason R as
\* nv.recovery_subcode on the broken screen, with the request cleared; when
\* the next boot has FORCE_RECOVERY_MODE set and no recovery request was
\* written since, vb2_check_recovery makes R the reason of that boot (and
\* the boot a manual recovery); a manual boot that finds neither a subcode
\* nor a request in NV gets the reason RO_MANUAL.
C33_ReasonSurvives ==
  /\ RecoveryChecked /\ AfterBrokenScreen =>
       /\ old.nv.recovery_subcode = call.in.reason
       /\ old.nv.recovery_request = VB2_RECOVERY_NOT_REQUESTED
  /\ RecoveryChecked /\ AfterBrokenScreen /\ ManualBoot =>
       /\ call.in.reason # 0
       /\ sd.recovery_reason = call.in.reason
       /\ "MANUAL_RECOVERY" \in sd.flags
       /\ "RECOVERY_MODE" \in flags
  /\ RecoveryChecked /\ ManualBoot
       /\ old.nv.recovery_subcode = 0 /\ old.nv.recovery_request = 0 =>
       sd.recovery_reason = VB2_RECOVERY("RO_MANUAL")

\* FW_KEYBLOCK, saved on the broken screen, is the reason of the manual
\* recovery boot that follows
C33_Witness ==
  /\ RecoveryChecked
  /\ AfterBrokenScreen
  /\ ManualBoot
  /\ call.in.reason = VB2_RECOVERY("FW_KEYBLOCK")
  /\ sd.recovery_reason = VB2_RECOVERY("FW_KEYBLOCK")


(***************************************************************************)
(* C34: enabling developer mode from the recovery UI                       *)
(***************************************************************************)
DevModeEnabledInUi ==
  RecoveryUiReturned /\ CalledInUi("vb2_enable_developer_mode")

Turns == call.in.turns

AnswerKeys == { "ENTER", "SPACE", "ESC" }

\* the presence button counts: the platform has one and the key of the
\* turn is not one VbUserConfirms answers or ignores by itself
ButtonSeen(i) ==
  ~call.in.PHYSICAL_PRESENCE_KEYBOARD /\ Turns[i].key \notin AnswerKeys

\* turn i is Ctrl+D with the presence button free, and turn j is the yes
\* that follows: ENTER on a trusted keyboard, or the release of the
\* presence button after it was seen pressed since turn i
ConfirmedAt(i, j) ==
  /\ Turns[i].key = "CTRL_D"
  /\ call.in.PHYSICAL_PRESENCE_KEYBOARD \/ ~Turns[i].presence
  /\ \/ Turns[j].key = "ENTER" /\ Turns[j].trusted
     \/ /\ ButtonSeen(j) /\ ~Turns[j].presence
        /\ \E k \in (i + 1)..(j - 1) : ButtonSeen(k) /\ Turns[k].presence

\* C34: the recovery UI calls vb2_enable_developer_mode only when manual
\* recovery is allowed, developer mode is not enabled, MANUAL_RECOVERY is
\* set, the user pressed Ctrl+D with the presence button free (where the
\* platform has one), and VbUserConfirms answered 1 under
\* MUST_TRUST_KEYBOARD: ENTER on a trusted keyboard or a press and release
\* of the presence button, never ENTER on another keyboard. It then returns
\* EC_REBOOT_TO_RO_REQUIRED with no kernel loaded, the DEV_MODE flag stored
\* and this boot not in developer mode; the next boot's
\* vb2_check_dev_switch enables the mode.
C34_DevModeGate ==
  /\ DevModeEnabledInUi =>
       /\ vb2_allow_recovery(old, gbb, call.in.ec_trusted)
       /\ "DEV_MODE_ENABLED" \notin old.sd.flags
       /\ "MANUAL_RECOVERY" \in old.sd.flags
       /\ \E i \in 1..Len(Turns) : \E j \in (i + 1)..Len(Turns) : ConfirmedAt(i, j)
       /\ call.rv = VB2_ERROR("EC_REBOOT_TO_RO_REQUIRED")
       /\ call.ext[Len(call.ext)] = "vb2_enable_developer_mode"
       /\ shared = old.shared
       /\ "DEV_MODE" \in secdata.flags
       /\ "DEV_MODE_ENABLED" \notin sd.flags
       /\ "DEVELOPER_MODE" \notin flags
  /\ RecoveryUiReturned /\ ~DevModeEnabledInUi => secdata = old.secdata
  /\ call.op = "check_dev_switch" /\ call.rv = VB2_SUCCESS
       /\ "DEV_MODE" \in old.secdata.flags /\ old.nv.disable_dev_request = 0 =>
       "DEV_MODE_ENABLED" \in sd.flags /\ "DEVELOPER_MODE" \in flags

\* on a platform with a presence button the user presses Ctrl+D, then
\* presses and releases the button: developer mode is enabled for the next
\* boot
C34_Witness ==
  /\ DevModeEnabledInUi
  /\ ~call.in.PHYSICAL_PRESENCE_KEYBOARD
  /\ Turns = << UiTurn("CTRL_D", TRUE, FALSE, FALSE, << >>),
                UiTurn("NONE", TRUE, TRUE, FALSE, << >>),
                UiTurn("NONE", TRUE, FALSE, FALSE, << >>) >>
  /\ call.rv = VB2_ERROR("EC_REBOOT_TO_RO_REQUIRED")
  /\ "DEV_MODE" \in secdata.flags
  /\ "DEV_MODE" \notin old.secdata.flags

(***************************************************************************)
(* The FWMP lockout of developer boot                                      *)
(***************************************************************************)
DeveloperUiReturned == call.op = "vb2_developer_ui"

\* developer boot is disabled by the FWMP and the GBB does not overrule it
LockedOut ==
  /\ DeveloperUiReturned
  /\ "DEV_DISABLE_BOOT" \in call.in.fwmp
  /\ "FORCE_DEV_SWITCH_ON" \notin gbb.flags

\* a turn in which the user neither answers yes nor asks for a shutdown
NoAnswerTurn(t) == t.key # "ENTER" /\ ~t.presence /\ ~t.shutdown

OnlyCancels ==
  \A i \in 1..Len(call.in.turns) : NoAnswerTurn(call.in.turns[i])

DiagnosticReturned == call.op = "VbBootDiagnostic"

\* the user confirmed the diagnostic action
DiagnosticConfirmed == DiagnosticReturned /\ CalledInUi("vb2ex_tpm_set_mode")

\* the power button was seen free in turn i, pressed in turn j and free
\* again in turn k
ReleasePressRelease(i, j, k) ==
  /\ i < j
  /\ j < k
  /\ ~call.in.turns[i].presence
  /\ call.in.turns[j].presence
  /\ ~call.in.turns[k].presence

\* C36: on the diagnostic path nv.diag_request is 0 from the moment
\* VbBootDiagnostic runs, whether the UI is still waiting, started the
\* diagnostic firmware or returned; the path returns only REBOOT_REQUIRED or
\* SHUTDOWN_REQUESTED, never success; the action is confirmed only when the
\* power button was seen free, then pressed, then free again; and the boot
\* after a diagnostic boot is not a diagnostic boot.
C36_DiagnosticOneShot ==
  /\ DiagnosticReturned =>
       /\ old.nv.diag_request = 1
       /\ nv.diag_request = 0
       /\ call.rv \in { VB2_ERROR("REBOOT_REQUIRED"),
                        VB2_ERROR("SHUTDOWN_REQUESTED"),
                        VB2_WAITING, VB2_ALTFW }
       /\ ~CalledInUi("VbTryLoadKernel")
       /\ (call.rv = VB2_ALTFW \/ CalledInUi("vb2_try_altfw"))
            => DiagnosticConfirmed
       /\ DiagnosticConfirmed =>
            \E i, j, k \in 1..Len(call.in.turns) : ReleasePressRelease(i, j, k)
  /\ (call.op = "boot") => call.in # "diagnostic"

\* the user lets go of the power button, presses it and lets go, and the
\* diagnostic firmware fails to start
C36_Witness ==
  /\ DiagnosticConfirmed
  /\ call.rv = VB2_ERROR("REBOOT_REQUIRED")
  /\ call.fails = << << VB2_RECOVERY("ALTFW_HASH_FAILED"), 0 >> >>
  /\ nv.diag_request = 0

(***************************************************************************)
(* The failure VbTryLoadKernel reports                                     *)
(***************************************************************************)
TryLoadReturned == call.op = "VbTryLoadKernel"

\* disk i passes the sanity check of VbTryLoadKernel
Tried(i) == call.in.disks[i].usable

\* a kernel was loaded from some disk
KernelLoaded ==
  \E i \in 1..Len(call.in.disks) :
     Tried(i) /\ call.in.disks[i].rv = VB2_SUCCESS

\* LoadKernel found an invalid kernel on some disk
InvalidKernelSeen ==
  \E i \in 1..Len(call.in.disks) :
     Tried(i) /\ call.in.disks[i].rv = VB2_ERROR("LK_INVALID_KERNEL_FOUND")

\* the one call of vb2api_fail with the given reason and the returned error
\* as subcode
FailedOnceWith(reason) == call.fails = << << reason, U8(call.rv) >> >>

\* C37: a VbTryLoadKernel for fixed disks that loads no kernel calls
\* vb2api_fail exactly once, with RW_INVALID_OS for INVALID_KERNEL_FOUND,
\* RW_NO_KERNEL for NO_KERNEL_FOUND, RW_NO_DISK for NO_DISK_FOUND and
\* LK_UNSPECIFIED for any other error; for removable disks, or when a
\* kernel is loaded, it calls it not at all and NV is unchanged; and when
\* some disk gave INVALID_KERNEL_FOUND and none a kernel, that is the error
\* returned.
C37_LoadFailureReported ==
  TryLoadReturned =>
    /\ (call.rv = VB2_SUCCESS) <=> KernelLoaded
    /\ (call.in.fixed /\ ~KernelLoaded) =>
         /\ (call.rv = VB2_ERROR("LK_INVALID_KERNEL_FOUND"))
              => FailedOnceWith(VB2_RECOVERY("RW_INVALID_OS"))
         /\ (call.rv = VB2_ERROR("LK_NO_KERNEL_FOUND"))
              => FailedOnceWith(VB2_RECOVERY("RW_NO_KERNEL"))
         /\ (call.rv = VB2_ERROR("LK_NO_DISK_FOUND"))
              => FailedOnceWith(VB2_RECOVERY("RW_NO_DISK"))
         /\ (call.rv \notin { VB2_ERROR("LK_INVALID_KERNEL_FOUND"),
                              VB2_ERROR("LK_NO_KERNEL_FOUND"),
                              VB2_ERROR("LK_NO_DISK_FOUND") })
              => FailedOnceWith(VB2_RECOVERY("LK_UNSPECIFIED"))
    /\ (~call.in.fixed \/ KernelLoaded) =>
         /\ call.fails = << >>
         /\ nv = old.nv
    /\ (InvalidKernelSeen /\ ~KernelLoaded) =>
         call.rv = VB2_ERROR("LK_INVALID_KERNEL_FOUND")

\* the first fixed disk holds an invalid kernel, the second cannot be read
C37_Witness ==
  /\ TryLoadReturned
  /\ call.in.fixed
  /\ Len(call.in.disks) = 2
  /\ Tried(1)
  /\ call.in.disks[1].rv = VB2_ERROR("LK_INVALID_KERNEL_FOUND")
  /\ Tried(2)
  /\ call.in.disks[2].rv = VB2_ERROR("DISK_READ")
  /\ FailedOnceWith(VB2_RECOVERY("RW_INVALID_OS"))
  /\ nv.recovery_request = VB2_RECOVERY("RW_INVALID_OS")

(***************************************************************************)
(* The request to clear the TPM owner applies once                         *)
(***************************************************************************)
TpmClearReturned == call.op = "vb2_check_tpm_clear"

TpmClearRequested == TpmClearReturned /\ old.nv.clear_tpm_owner_request # 0

\* C38: with nv.clear_tpm_owner_request set, vb2_check_tpm_clear calls
\* vb2ex_tpm_clear_owner once and leaves the request 0 whatever the outcome;
\* after a successful clear it returns success with
\* nv.clear_tpm_owner_done = 1; after a failed one it calls vb2api_fail with
\* TPM_CLEAR_OWNER, returns the error and leaves clear_tpm_owner_done as it
\* was; without the request it calls nothing and changes nothing.
C38_TpmClearOnce ==
  /\ TpmClearRequested =>
       /\ call.ext = << "vb2ex_tpm_clear_owner" >>
       /\ nv.clear_tpm_owner_request = 0
       /\ (call.in.clear = "ok") =>
            /\ call.rv = VB2_SUCCESS
            /\ call.fails = << >>
            /\ nv = [ old.nv EXCEPT !.clear_tpm_owner_request = 0,
                                    !.clear_tpm_owner_done = 1 ]
       /\ (call.in.clear = "fail") =>
            /\ call.rv = VB2_ERROR("EX_TPM_CLEAR_OWNER")
            /\ call.fails = << << VB2_RECOVERY("TPM_CLEAR_OWNER"),
                                  U8(call.rv) >> >>
            /\ nv.clear_tpm_owner_done = old.nv.clear_tpm_owner_done
       /\ [ Engine EXCEPT !.nv = old.nv ] = [ old EXCEPT !.sd = sd ]
  /\ (TpmClearReturned /\ ~TpmClearRequested) =>
       /\ call.ext = << >>
       /\ call.fails = << >>
       /\ call.rv = VB2_SUCCESS
       /\ Engine = old

\* the clear was requested and failed: the request is gone, the done bit
\* is not set, recovery is requested
C38_Witness ==
  /\ TpmClearRequested
  /\ call.in.clear = "fail"
  /\ old.nv.clear_tpm_owner_done = 0
  /\ nv.clear_tpm_owner_request = 0
  /\ nv.clear_tpm_owner_done = 0
  /\ nv.recovery_request = VB2_RECOVERY("TPM_CLEAR_OWNER")

(***************************************************************************)
(* The request to leave developer mode and the stored DEV_MODE flag        *)
(***************************************************************************)
\* vb2_check_dev_switch cleared nv.disable_dev_request
DisableRequestCleared ==
  /\ DevSwitchReturned
  /\ old.nv.disable_dev_request # 0
  /\ nv.disable_dev_request = 0

\* C39: whenever vb2_check_dev_switch cleared nv.disable_dev_request, the
\* DEV_MODE flag is clear in the secdata_firmware flags stored when the
\* function returns, on every return path.
C39_RequestHasEffect ==
  DisableRequestCleared => "DEV_MODE" \notin secdata.flags

(***************************************************************************)
(* A failed verification leaves no usable artifact                         *)
(***************************************************************************)
\* body sizes a firmware preamble can declare
FirmwareBodySizes == { 1, 4096 }

\* no firmware preamble is recorded in s: vb2api_get_firmware_size returns 0
NoFirmwareSize(s) ==
  \A d \in FirmwareBodySizes : vb2api_get_firmware_size(s, d) = 0

\* every vb2api_kernel_phase1 called now, outside recovery mode, fails
KernelPhase1Rejected ==
  \A in \in Phase1Inputs :
     vb2api_kernel_phase1(Engine, gbb, in).rv # VB2_SUCCESS

PreambleFailed == PreambleReturned /\ call.rv # VB2_SUCCESS

\* C40: when vb2_load_fw_keyblock returns an error the data key offset and
\* size and the work buffer watermark are unchanged; when
\* vb2_load_fw_preamble returns an error the preamble offset and size, the
\* watermark and the firmware version in secure storage are unchanged, so
\* with no preamble recorded before, vb2api_get_firmware_size returns 0 and
\* vb2api_kernel_phase1 outside recovery mode fails; a key version or
\* firmware version above 0xFFFF is such an error whatever the GBB flags.
C40_NoArtifactOnFailure ==
  /\ KeyblockFailed =>
       /\ sd.data_key_offset = old.sd.data_key_offset
       /\ sd.data_key_size = old.sd.data_key_size
       /\ sd.workbuf_used = old.sd.workbuf_used
  /\ PreambleFailed =>
       /\ sd.preamble_offset = old.sd.preamble_offset
       /\ sd.preamble_size = old.sd.preamble_size
       /\ sd.workbuf_used = old.sd.workbuf_used
       /\ secdata = old.secdata
       /\ sd.fw_version_secdata = old.sd.fw_version_secdata
       /\ (old.sd.preamble_size = 0 /\ "RECOVERY_MODE" \notin flags) =>
            /\ NoFirmwareSize(sd)
            /\ KernelPhase1Rejected
  /\ (Phase1Returned /\ old.sd.preamble_size = 0
        /\ "RECOVERY_MODE" \notin old.flags) => call.rv # VB2_SUCCESS
  /\ (KeyblockReturned /\ call.in.key_version > VB2_MAX_KEY_VERSION)
       => KeyblockFailed
  /\ (PreambleReturned /\ call.in.firmware_version > VB2_MAX_PREAMBLE_VERSION)
       => PreambleFailed

\* with DISABLE_FW_ROLLBACK_CHECK set, a preamble of version 0x10000 is
\* refused for its range after it was read into the work buffer: the
\* combined version in shared data changed, the recorded preamble, the
\* watermark and secure storage did not
C40_Witness ==
  /\ PreambleFailed
  /\ "DISABLE_FW_ROLLBACK_CHECK" \in gbb.flags
  /\ call.in.firmware_version > VB2_MAX_PREAMBLE_VERSION
  /\ call.rv = VB2_ERROR("FW_PREAMBLE_VERSION_RANGE")
  /\ sd.fw_version # old.sd.fw_version
  /\ old.sd.preamble_size = 0
  /\ sd.preamble_size = 0
  /\ sd.workbuf_used = old.sd.workbuf_used
  /\ KernelPhase1Rejected

=============================================================================
